---- MODULE Spec2Model ----
(***************************************************************************)
(* A model of the kv server in parts, each with its own next-state         *)
(* relation over the variables of its part: the pub/sub broadcaster        *)
(* (src/service/topic.rs) with the tasks it spawns on the tokio runtime,   *)
(* the frame codec (src/network/tokio_codec.rs), the one-shot storage      *)
(* commands (src/service/command_service.rs), the dispatcher with its      *)
(* hooks (src/service/mod.rs), the client's StreamResult                   *)
(* (src/network/stream_result.rs), the yamux client                        *)
(* (src/network/multiplex/yamux_multiplex.rs) and the logical streams of   *)
(* a connection on the server (src/network/mod.rs, src/server.rs); the     *)
(* fan-out of publish and the id generator have a workload of their own.   *)
(*                                                                         *)
(* subscribe / unsubscribe are synchronous functions that worker threads   *)
(* of the multi-threaded runtime (#[tokio::main], src/server.rs) execute   *)
(* concurrently; they interleave at the granularity of the DashMap         *)
(* operations, each of which is atomic under its shard lock.  Every        *)
(* tokio::spawn creates a task that the scheduler runs at any later time.  *)
(***************************************************************************)
EXTENDS Integers, Sequences, FiniteSets, TLC

(* ------------------------------ bounds --------------------------------- *)
\* number of Subscribe calls explored
MaxSubs == 2
\* number of receivers dropped by their consumers
MaxDrops == 1
\* number of worker threads of the runtime
Workers == 2
\* number of calls of Subscribe, Unsubscribe and Publish together; the
\* workloads explored make at least one call of each kind
MaxCalls == 4
\* mailbox capacity explored (const CAPACITY = 128 in the source, scaled down
\* so that a full mailbox is reachable)
CAPACITY == 2

Topics == {"a", "b"}
Ids == 1..MaxSubs

VARIABLES
    NEXT_ID,        \* static NEXT_ID: AtomicU32
    topics,         \* PubSub.topics: DashMap<String, DashSet<u32>>
    subscriptions,  \* PubSub.subscriptions: keys of DashMap<u32, Sender>
    subs,           \* Subscribe calls in invocation order
    unsubs,         \* Unsubscribe calls in invocation order
    pubs,           \* Publish calls (their fan-out tasks) in invocation order
    idTask,         \* per subscription: the task spawned to send the id
    ackTask,        \* per subscription: the task spawned to send the ack
    chan,           \* per subscription: messages queued in the mpsc channel
    rx,             \* per subscription: state of the mpsc Receiver
    received        \* per subscription: messages its consumer has obtained

VARIABLES
    dst,            \* the codec's write buffer (BytesMut), a sequence of bytes
    buf,            \* the codec's read buffer (BytesMut), a sequence of bytes
    items,          \* the calls of encode made, with their results
    out             \* the calls of decode made, with their results

VARIABLES
    store,          \* the storage port's content: (table, key) -> value
    last,           \* the one-shot command executed last, with its response
    prev            \* the command executed before it

VARIABLES
    callbacks,      \* Processor.callbacks: the on_received hooks registered
    mut_callbacks,  \* Processor.mut_callbacks: the before_send hooks registered
    built,          \* the ServiceInner has been turned into the Service
    exec            \* the call of Service::execute made last

VARIABLES
    inner,          \* the items the inner stream holds ready, in order
    ended,          \* the inner stream ends after them
    taken,          \* the items taken from the inner stream so far
    result,         \* what StreamResult::new returned, once it was called
    yielded         \* what polling the StreamResult has yielded, in order

VARIABLES
    control,        \* the mpsc channel of ControlMessages: the calls they are of
    opens,          \* the calls of open_stream, in invocation order
    driver,         \* the task spawned by new_client
    outbound        \* the yamux streams the driver has opened, in order

VARIABLES
    inbox,          \* per stream: the requests that have arrived, unread
    task,           \* per stream: where its ServerStream::process is
    resStream,      \* per stream: the stream res execute returned, what is left
    sent,           \* per stream: the responses written to it, in order
    client,         \* per stream: the client's end, what it got before a drop
    handled         \* the requests decoded on the connection, in order

VARIABLES
    issued          \* the ids get_next_subscription_id has returned, in order

topicVars == <<NEXT_ID, topics, subscriptions, subs, unsubs, pubs, idTask,
               ackTask, chan, rx, received>>
codecVars == <<dst, buf, items, out>>
storeVars == <<store, last, prev>>
serviceVars == <<callbacks, mut_callbacks, built, exec>>
streamVars == <<inner, ended, taken, result, yielded>>
muxVars == <<control, opens, driver, outbound>>
serverVars == <<inbox, task, resStream, sent, client, handled>>
idVars == <<issued>>
vars == <<topicVars, codecVars, storeVars, serviceVars, streamVars, muxVars,
          serverVars, idVars>>

\* what the steps of one part leave alone
outsideIds ==
    <<codecVars, storeVars, serviceVars, streamVars, muxVars, serverVars>>
outsideTopic ==
    <<codecVars, storeVars, serviceVars, streamVars, muxVars, serverVars,
      idVars>>
outsideCodec ==
    <<topicVars, storeVars, serviceVars, streamVars, muxVars, serverVars,
      idVars>>
outsideStore ==
    <<topicVars, codecVars, serviceVars, streamVars, muxVars, serverVars,
      idVars>>
outsideService == <<codecVars, streamVars, muxVars, serverVars, idVars>>
outsideStream ==
    <<topicVars, codecVars, storeVars, serviceVars, muxVars, serverVars,
      idVars>>
outsideMux ==
    <<topicVars, codecVars, storeVars, serviceVars, streamVars, serverVars,
      idVars>>
outsideServer == <<codecVars, serviceVars, streamVars, muxVars, idVars>>

(* ----------------------------- messages -------------------------------- *)
\* Value::from(id as i64) turned into a CommandResponse: status 200, values=[id]
IdPacket(id) == [status |-> 200, values |-> << <<"Integer", id>> >>]

\* the CommandResponse built from the data of the p-th Publish call
PubMsg(p) == [status |-> 200, values |-> << <<"String", p>> >>]

\* CommandResponse::unsubscribe_ack(): the default response, status 0
UnsubscribeAck == [status |-> 0, values |-> <<>>]

(* ------------------------ the AtomicU32 counter ------------------------ *)
\* a fetch_add that forgets to add
FetchAddStuck(n) == n

\* the number of values of the counter: 2^32 for the AtomicU32 of the
\* source, scaled down so that the runs of the id generator reach its end
IdSpace == 8

\* the value NEXT_ID holds after fetch_add(1): the sum wraps around at the
\* end of the counter's range
FetchAdd(n) == (n + 1) % IdSpace

(* ------------------------- DashMap operations -------------------------- *)
\* topics.entry(name).or_default() followed by entry.insert(id)
TopicsInsert(ts, name, id) ==
    [n \in (DOMAIN ts) \cup {name} |->
        IF n = name
        THEN (IF name \in DOMAIN ts THEN ts[name] ELSE {}) \cup {id}
        ELSE ts[n]]

\* v.remove(&id) on the set of an existing topic
TopicsRemoveId(ts, name, id) ==
    [n \in DOMAIN ts |-> IF n = name THEN ts[n] \ {id} ELSE ts[n]]

\* a remove that clears the map
TopicsRemoveAll(ts, name) == [n \in {} |-> {}]

\* topics.remove(name)
TopicsRemove(ts, name) == [n \in (DOMAIN ts) \ {name} |-> ts[n]]

\* an is_empty that never reports an empty set
IsEmptyNever(s) == FALSE

\* v.is_empty()
IsEmpty(s) == s = {}

\* the step "if let Some(v) = topics.get_mut(name) { v.remove(&id); if
\* v.is_empty() { drop(v); ... } }": the map afterwards
TopicStepMap(ts, name, id) ==
    IF name \in DOMAIN ts THEN TopicsRemoveId(ts, name, id) ELSE ts

\* ... and whether the branch that goes on to topics.remove(name) is taken
TopicStepEmptied(ts, name, id) ==
    name \in DOMAIN ts /\ IsEmpty(ts[name] \ {id})

(* --------------------------- mpsc channel ------------------------------ *)
\* a sender of the channel is alive: tx in the id task, txc in the map or
\* in the ack task
SendersAlive(id) ==
    idTask[id] = "pending" \/ id \in subscriptions \/ ackTask[id] = "pending"

\* Sender::send returns Err at once when the receiver is gone
Closed(id) == rx[id] # "alive"

\* Sender::send has to wait for a permit
Full(id) == Len(chan[id]) >= CAPACITY

\* every message enqueued so far in the mailbox of a live receiver, in order
Delivered(id) == received[id] \o chan[id]

\* a fan-out task holds the Ref of subscriptions.get(&id) across its await
Held(id) == \E p \in 1..Len(pubs) : pubs[p].hold = id

\* no call of subscribe or unsubscribe is between its steps and no fan-out
\* task is between its snapshot and its end
Quiescent ==
    /\ \A k \in 1..Len(subs) : subs[k].pc = "returned"
    /\ \A u \in 1..Len(unsubs) : unsubs[u].pc \in {"ok", "notfound"}
    /\ \A p \in 1..Len(pubs) : pubs[p].pc \in {"spawned", "done"}

\* what occupies a worker thread: a call of subscribe or unsubscribe between
\* its first and its last step (also while it waits for a shard lock), and a
\* fan-out task that is neither unstarted nor suspended in send().await
Busy ==
    Cardinality({k \in 1..Len(subs) : subs[k].pc = "inserted"})
    + Cardinality({u \in 1..Len(unsubs) : unsubs[u].pc \in {"rmtopic", "subs"}})
    + Cardinality({p \in 1..Len(pubs) :
          pubs[p].pc = "cleanup" \/ (pubs[p].pc = "fanout" /\ pubs[p].hold = 0)})

\* a worker thread is free to start a call or to run a task
Free == Busy < Workers

\* a workload of ns Subscribe, nu Unsubscribe and np Publish calls leaves room,
\* among the MaxCalls calls, for one call of each kind not made yet
Room(ns, nu, np) ==
    (IF ns = 0 THEN 1 ELSE ns) + (IF nu = 0 THEN 1 ELSE nu)
        + (IF np = 0 THEN 1 ELSE np) <= MaxCalls

(* ------------------------------- Init ---------------------------------- *)
TopicInit ==
    /\ NEXT_ID = 1
    /\ topics = [n \in {} |-> {}]
    /\ subscriptions = {}
    /\ subs = <<>>
    /\ unsubs = <<>>
    /\ pubs = <<>>
    /\ idTask = [i \in Ids |-> "none"]
    /\ ackTask = [i \in Ids |-> "none"]
    /\ chan = [i \in Ids |-> <<>>]
    /\ rx = [i \in Ids |-> "none"]
    /\ received = [i \in Ids |-> <<>>]

(* ----------------------------- subscribe ------------------------------- *)
\* the calls of Subscribe that have returned their receiver
Returned == {k \in 1..Len(subs) : subs[k].pc = "returned"}

\* subscribe, lines 50-55: under the entry's lock, create the topic if absent,
\* take the next id and insert it into the topic's set
SubscribeTopic(name) ==
    /\ Len(subs) < MaxSubs
    /\ Room(Len(subs) + 1, Len(unsubs), Len(pubs))
    /\ Free
    /\ NEXT_ID \in Ids
    /\ topics' = TopicsInsert(topics, name, NEXT_ID)
    /\ subs' = Append(subs, [name |-> name, id |-> NEXT_ID, pc |-> "inserted",
                             after |-> Returned])
    /\ NEXT_ID' = FetchAdd(NEXT_ID)
    /\ UNCHANGED <<subscriptions, unsubs, pubs, idTask, ackTask, chan, rx,
                    received>>
    /\ UNCHANGED outsideTopic

\* subscribe, lines 57-67: create the channel, spawn the task that sends the
\* id, insert the sender into subscriptions and return the receiver
SubscribeInsert(k) ==
    /\ subs[k].pc = "inserted"
    /\ ~Held(subs[k].id)
    /\ subscriptions' = subscriptions \cup {subs[k].id}
    /\ idTask' = [idTask EXCEPT ![subs[k].id] = "pending"]
    /\ chan' = [chan EXCEPT ![subs[k].id] = <<>>]
    /\ rx' = [rx EXCEPT ![subs[k].id] = "alive"]
    /\ subs' = [subs EXCEPT ![k].pc = "returned"]
    /\ UNCHANGED <<NEXT_ID, topics, unsubs, pubs, ackTask,  received>>
    /\ UNCHANGED outsideTopic

\* the spawned task of lines 59-64: tx.send(id).await, a failure only warns
IdSend(id) ==
    /\ idTask[id] = "pending"
    /\ Free
    /\ IF Closed(id)
       THEN /\ idTask' = [idTask EXCEPT ![id] = "failed"]
            /\ UNCHANGED chan
       ELSE /\ ~Full(id)
            /\ chan' = [chan EXCEPT ![id] = Append(@, IdPacket(id))]
            /\ idTask' = [idTask EXCEPT ![id] = "done"]
    /\ UNCHANGED <<NEXT_ID, topics, subscriptions, subs, unsubs, pubs, ackTask,
                   rx, received>>
    /\ UNCHANGED outsideTopic

(* ------------------------- history of the calls ------------------------ *)
\* ids of the subscriptions a call of Unsubscribe has named so far
UnsubNamed == {unsubs[u].id : u \in 1..Len(unsubs)}

\* ids for which a call of Unsubscribe has returned Ok
UnsubOk == {unsubs[u].id : u \in {v \in 1..Len(unsubs) : unsubs[v].pc = "ok"}}

\* ids whose receiver was found dropped by a fan-out that is done by now
CleanedUp ==
    UNION {pubs[p].gone : p \in {q \in 1..Len(pubs) : pubs[q].pc = "done"}}

\* ids of the subscriptions to topic name whose Subscribe call has returned
ReturnedOn(name) == {subs[k].id : k \in {j \in Returned : subs[j].name = name}}

(* ---------------------------- unsubscribe ------------------------------ *)
\* unsubscribe, lines 71-76: remove the id from the topic's set and see
\* whether the set is empty now
UnsubscribeTopic(name, id) ==
    /\ Room(Len(subs), Len(unsubs) + 1, Len(pubs))
    /\ Free
    /\ topics' = TopicStepMap(topics, name, id)
    /\ unsubs' = Append(unsubs,
          [name |-> name, id |-> id,
           pc |-> IF TopicStepEmptied(topics, name, id) THEN "rmtopic" ELSE "subs",
           changed |-> TopicStepMap(topics, name, id) # topics,
           quiet |-> Quiescent,
           cleaned |-> id \in CleanedUp,
           closed |-> rx[id] = "dropped",
           sentBefore |-> 0])
    /\ UNCHANGED <<NEXT_ID, subscriptions, subs, pubs, idTask, ackTask, chan,
                   rx,  received>>
    /\ UNCHANGED outsideTopic

\* unsubscribe, line 77: topics.remove(&name), after the guard was dropped
UnsubscribeRemoveTopic(u) ==
    /\ unsubs[u].pc = "rmtopic"
    /\ topics' = TopicsRemove(topics, unsubs[u].name)
    /\ unsubs' = [unsubs EXCEPT ![u].pc = "subs",
                     ![u].changed = @ \/ (TopicsRemove(topics, unsubs[u].name) # topics)]
    /\ UNCHANGED <<NEXT_ID, subscriptions, subs, pubs, idTask, ackTask, chan,
                   rx,  received>>
    /\ UNCHANGED outsideTopic

\* unsubscribe, lines 82-94: subscriptions.remove(&id); Some: spawn the task
\* that sends the ack and return Ok(id); None: Err(NotFound)
UnsubscribeSubs(u) ==
    /\ unsubs[u].pc = "subs"
    /\ ~Held(unsubs[u].id)
    /\ IF unsubs[u].id \in subscriptions
       THEN /\ subscriptions' = subscriptions \ {unsubs[u].id}
            /\ ackTask' = [ackTask EXCEPT ![unsubs[u].id] = "pending"]
            /\ unsubs' = [unsubs EXCEPT ![u].pc = "ok",
                             ![u].sentBefore = Len(Delivered(unsubs[u].id))]
       ELSE /\ unsubs' = [unsubs EXCEPT ![u].pc = "notfound"]
            /\ UNCHANGED <<subscriptions, ackTask>>
    /\ UNCHANGED <<NEXT_ID, topics, subs, pubs, idTask, chan, rx, 
                   received>>
    /\ UNCHANGED outsideTopic

\* the spawned task of lines 87-90: sender.send(ack).await.unwrap(), then the
\* sender is dropped
AckSend(id) ==
    /\ ackTask[id] = "pending"
    /\ Free
    /\ IF Closed(id)
       THEN /\ ackTask' = [ackTask EXCEPT ![id] = "panicked"]
            /\ UNCHANGED chan
       ELSE /\ ~Full(id)
            /\ chan' = [chan EXCEPT ![id] = Append(@, UnsubscribeAck)]
            /\ ackTask' = [ackTask EXCEPT ![id] = "done"]
    /\ UNCHANGED <<NEXT_ID, topics, subscriptions, subs, unsubs, pubs, idTask,
                   rx, received>>
    /\ UNCHANGED outsideTopic

(* ------------------------------ publish -------------------------------- *)
\* CommandResponse::ok(): status 200, nothing else
CommandResponseOk == [status |-> 200, values |-> <<>>]

\* the fan-out run inside the call instead of a spawned task: the call waits
\* while a mailbox of the topic is full
PublishInline(name) ==
    /\ Room(Len(subs), Len(unsubs), Len(pubs) + 1)
    /\ Free
    /\ \A id \in (IF name \in DOMAIN topics THEN topics[name] ELSE {}) :
           ~Full(id)
    /\ pubs' = Append(pubs,
          [name |-> name, pc |-> "spawned", todo |-> {}, hold |-> 0,
           ids |-> <<>>, rpc |-> "topic", res |-> <<CommandResponseOk>>,
           okBefore |-> UnsubOk,
           active |-> ReturnedOn(name) \ UnsubNamed,
           gone |-> {}])
    /\ UNCHANGED <<NEXT_ID, topics, subscriptions, subs, unsubs, idTask,
                   ackTask, chan, rx,  received>>
    /\ UNCHANGED outsideTopic

\* Publish::execute: publish (line 98) spawns the fan-out task and returns at
\* once; res is the stream returned to the caller, the single ok()
Publish(name) ==
    /\ Room(Len(subs), Len(unsubs), Len(pubs) + 1)
    /\ Free
    /\ pubs' = Append(pubs,
          [name |-> name, pc |-> "spawned", todo |-> {}, hold |-> 0,
           ids |-> <<>>, rpc |-> "topic", res |-> <<CommandResponseOk>>,
           okBefore |-> UnsubOk,
           active |-> ReturnedOn(name) \ UnsubNamed,
           gone |-> {}])
    /\ UNCHANGED <<NEXT_ID, topics, subscriptions, subs, unsubs, idTask,
                   ackTask, chan, rx,  received>>
    /\ UNCHANGED outsideTopic

\* where the fan-out task goes after its loop over the snapshot
AfterLoop(todo, ids) ==
    IF todo # {} THEN "fanout" ELSE IF ids # <<>> THEN "cleanup" ELSE "done"

\* publish, lines 99-102: clone the topic's id set under its lock
FanoutSnapshot(p) ==
    /\ pubs[p].pc = "spawned"
    /\ Free
    /\ LET snap == IF pubs[p].name \in DOMAIN topics
                   THEN topics[pubs[p].name] ELSE {}
       IN pubs' = [pubs EXCEPT ![p].todo = snap,
                      ![p].pc = AfterLoop(snap, <<>>),
                      ![p].gone = {i \in ReturnedOn(pubs[p].name) \ UnsubNamed :
                                      rx[i] = "dropped"}]
    /\ UNCHANGED <<NEXT_ID, topics, subscriptions, subs, unsubs, idTask,
                   ackTask, chan, rx,  received>>
    /\ UNCHANGED outsideTopic

\* publish, lines 104-110, one iteration: look the sender up and send; with a
\* full mailbox the task suspends in send().await while it holds the Ref
FanoutSend(p, id) ==
    /\ pubs[p].pc = "fanout"
    /\ pubs[p].hold = 0
    /\ id \in pubs[p].todo
    /\ LET rest == pubs[p].todo \ {id} IN
       IF id \notin subscriptions
       THEN /\ pubs' = [pubs EXCEPT ![p].todo = rest,
                           ![p].pc = AfterLoop(rest, pubs[p].ids)]
            /\ UNCHANGED chan
       ELSE IF Closed(id)
       THEN /\ pubs' = [pubs EXCEPT ![p].todo = rest,
                           ![p].ids = Append(@, id),
                           ![p].pc = AfterLoop(rest, Append(pubs[p].ids, id))]
            /\ UNCHANGED chan
       ELSE IF Full(id)
       THEN /\ pubs' = [pubs EXCEPT ![p].hold = id]
            /\ UNCHANGED chan
       ELSE /\ pubs' = [pubs EXCEPT ![p].todo = rest,
                           ![p].pc = AfterLoop(rest, pubs[p].ids)]
            /\ chan' = [chan EXCEPT ![id] = Append(@, PubMsg(p))]
    /\ UNCHANGED <<NEXT_ID, topics, subscriptions, subs, unsubs, idTask,
                   ackTask, rx, received>>
    /\ UNCHANGED outsideTopic

\* publish, line 106: the suspended send completes, with a permit or with
\* the error of a closed channel
FanoutResume(p) ==
    /\ pubs[p].pc = "fanout"
    /\ pubs[p].hold # 0
    /\ Free
    /\ LET id == pubs[p].hold
           rest == pubs[p].todo \ {id} IN
       IF Closed(id)
       THEN /\ pubs' = [pubs EXCEPT ![p].todo = rest, ![p].hold = 0,
                           ![p].ids = Append(@, id),
                           ![p].pc = AfterLoop(rest, Append(pubs[p].ids, id))]
            /\ UNCHANGED chan
       ELSE /\ ~Full(id)
            /\ pubs' = [pubs EXCEPT ![p].todo = rest, ![p].hold = 0,
                           ![p].pc = AfterLoop(rest, pubs[p].ids)]
            /\ chan' = [chan EXCEPT ![id] = Append(@, PubMsg(p))]
    /\ UNCHANGED <<NEXT_ID, topics, subscriptions, subs, unsubs, idTask,
                   ackTask, rx, received>>
    /\ UNCHANGED outsideTopic

\* remove_subscription, lines 33-38, for the first failed id
RemoveSubscriptionTopic(p) ==
    /\ pubs[p].pc = "cleanup"
    /\ pubs[p].rpc = "topic"
    /\ topics' = TopicStepMap(topics, pubs[p].name, Head(pubs[p].ids))
    /\ pubs' = [pubs EXCEPT ![p].rpc =
                   IF TopicStepEmptied(topics, pubs[p].name, Head(pubs[p].ids))
                   THEN "rmtopic" ELSE "subs"]
    /\ UNCHANGED <<NEXT_ID, subscriptions, subs, unsubs, idTask, ackTask,
                   chan, rx, received>>
    /\ UNCHANGED outsideTopic

\* remove_subscription, line 39: topics.remove(name)
RemoveSubscriptionRemoveTopic(p) ==
    /\ pubs[p].pc = "cleanup"
    /\ pubs[p].rpc = "rmtopic"
    /\ topics' = TopicsRemove(topics, pubs[p].name)
    /\ pubs' = [pubs EXCEPT ![p].rpc = "subs"]
    /\ UNCHANGED <<NEXT_ID, subscriptions, subs, unsubs, idTask, ackTask,
                   chan, rx, received>>
    /\ UNCHANGED outsideTopic

\* remove_subscription, line 44: subscriptions.remove(&id), dropping the
\* sender; then the next failed id, lines 114-116
RemoveSubscriptionSubs(p) ==
    /\ pubs[p].pc = "cleanup"
    /\ pubs[p].rpc = "subs"
    /\ ~Held(Head(pubs[p].ids))
    /\ subscriptions' = subscriptions \ {Head(pubs[p].ids)}
    /\ pubs' = [pubs EXCEPT ![p].ids = Tail(@), ![p].rpc = "topic",
                   ![p].pc = IF Tail(pubs[p].ids) = <<>> THEN "done" ELSE "cleanup"]
    /\ UNCHANGED <<NEXT_ID, topics, subs, unsubs, idTask, ackTask, chan, rx,
                    received>>
    /\ UNCHANGED outsideTopic

(* ----------------------------- receivers ------------------------------- *)
\* Receiver::recv yields the next queued message
Recv(id) ==
    /\ rx[id] = "alive"
    /\ chan[id] # <<>>
    /\ Free
    /\ received' = [received EXCEPT ![id] = Append(@, Head(chan[id]))]
    /\ chan' = [chan EXCEPT ![id] = Tail(@)]
    /\ UNCHANGED <<NEXT_ID, topics, subscriptions, subs, unsubs, pubs, idTask,
                   ackTask, rx>>
    /\ UNCHANGED outsideTopic

\* Receiver::recv yields None: the queue is empty and every sender is dropped
RecvNone(id) ==
    /\ rx[id] = "alive"
    /\ chan[id] = <<>>
    /\ Free
    /\ ~SendersAlive(id)
    /\ rx' = [rx EXCEPT ![id] = "eos"]
    /\ UNCHANGED <<NEXT_ID, topics, subscriptions, subs, unsubs, pubs, idTask,
                   ackTask, chan,  received>>
    /\ UNCHANGED outsideTopic

\* the consumer drops the receiver (its stream): the channel closes and the
\* queued messages are discarded
DropRx(id) ==
    /\ rx[id] = "alive"
    /\ Free
    /\ Cardinality({i \in Ids : rx[i] = "dropped"}) < MaxDrops
    /\ rx' = [rx EXCEPT ![id] = "dropped"]
    /\ chan' = [chan EXCEPT ![id] = <<>>]
    /\ UNCHANGED <<NEXT_ID, topics, subscriptions, subs, unsubs, pubs, idTask,
                   ackTask,  received>>
    /\ UNCHANGED outsideTopic

(* --------------------------- specification ----------------------------- *)
Next ==
    \/ \E name \in Topics : SubscribeTopic(name)
    \/ \E k \in 1..Len(subs) : SubscribeInsert(k)
    \/ \E id \in Ids : IdSend(id)
    \/ \E name \in Topics, id \in Ids : UnsubscribeTopic(name, id)
    \/ \E u \in 1..Len(unsubs) : UnsubscribeRemoveTopic(u)
    \/ \E u \in 1..Len(unsubs) : UnsubscribeSubs(u)
    \/ \E id \in Ids : AckSend(id)
    \/ \E name \in Topics : Publish(name)
    \/ \E p \in 1..Len(pubs) : FanoutSnapshot(p)
    \/ \E p \in 1..Len(pubs), id \in Ids : FanoutSend(p, id)
    \/ \E p \in 1..Len(pubs) : FanoutResume(p)
    \/ \E p \in 1..Len(pubs) : RemoveSubscriptionTopic(p)
    \/ \E p \in 1..Len(pubs) : RemoveSubscriptionRemoveTopic(p)
    \/ \E p \in 1..Len(pubs) : RemoveSubscriptionSubs(p)
    \/ \E id \in Ids : Recv(id)
    \/ \E id \in Ids : RecvNone(id)
    \/ \E id \in Ids : DropRx(id)

(* ======================================================================= *)
(*                 the frame codec (src/network/tokio_codec.rs)            *)
(* ======================================================================= *)
\* number of encode calls and of decode calls explored
MaxItems == 2
MaxDecodes == 2
\* number of bytes the transport carries at a time
Segment == 5
\* compression threshold explored (const COMPRESSION_LIMIT = 1436 in the
\* source, scaled down with the header)
COMPRESSION_LIMIT == 3

\* const LENGTH: the header is 4 bytes
LENGTH == 4
\* the bytes of the model are one bit wide, so that the 4-byte header counts
\* modulo 16 where the source's u32 counts modulo 2^32
Byte == {0, 1}
Radix == Cardinality(Byte)
\* the values of a u32: `x as u32` is x % U32
U32 == Radix ^ LENGTH
\* const COMPRESSION_BIT = 1 << 31: the high bit of the header
COMPRESSION_BIT == U32 \div 2
\* const MAX_FRAME = 2u32.pow(31)
MAX_FRAME == U32 \div 2

\* BufMut::put_u32(x as u32): the LENGTH bytes of x, big-endian
PutU32(x) ==
    [i \in 1..LENGTH |-> ((x % U32) \div (Radix ^ (LENGTH - i))) % Radix]

\* Buf::get_u32: the number held big-endian in the bytes b
RECURSIVE GetU32(_)
GetU32(b) ==
    IF b = <<>> THEN 0
    ELSE GetU32(SubSeq(b, 1, Len(b) - 1)) * Radix + b[Len(b)]

\* x | COMPRESSION_BIT
OrCompressionBit(x) ==
    IF (x \div COMPRESSION_BIT) % 2 = 1 THEN x ELSE x + COMPRESSION_BIT

(* ------------------------------ messages ------------------------------- *)
\* a message with one bytes field; Default::default() has it empty
Message(data) == [data |-> data]
DefaultMessage == Message(<<>>)

\* prost Message::encode: a field that is empty is left out, a field that
\* is set is written as its tag followed by its bytes
ProstEncode(m) == IF m.data = <<>> THEN <<>> ELSE <<1>> \o m.data

\* prost Message::encoded_len
EncodedLen(m) == Len(ProstEncode(m))

\* prost Message::decode: no bytes give the default message; a wrong tag or
\* a tag with nothing after it is a DecodeError
ProstDecode(b) ==
    IF b = <<>> THEN [ok |-> TRUE, msg |-> DefaultMessage]
    ELSE IF b[1] = 1 /\ Len(b) > 1
         THEN [ok |-> TRUE, msg |-> Message(SubSeq(b, 2, Len(b)))]
         ELSE [ok |-> FALSE, msg |-> DefaultMessage]

(* -------------------------------- gzip --------------------------------- *)
\* GzEncoder: a member header, then the input either packed (here: a run of
\* one byte written as that byte and its count) when that is shorter, or
\* stored as it is; stored input comes out longer than it went in
GzEncode(b) ==
    LET packed == <<1, 1>> \o (IF b = <<>> THEN <<>> ELSE <<b[1]>> \o PutU32(Len(b)))
        stored == <<1, 0>> \o b
    IN IF /\ b # <<>>
          /\ \A i \in 1..Len(b) : b[i] = b[1]
          /\ Len(b) < U32
          /\ Len(packed) < Len(stored)
       THEN packed ELSE stored

\* GzDecoder::read_to_end: the input back, or an error for bytes that are
\* no gzip member (too short, wrong header, a packed block of a wrong size)
GzDecode(c) ==
    IF Len(c) < 2 \/ c[1] # 1 THEN [ok |-> FALSE, bytes |-> <<>>]
    ELSE IF c[2] = 0 THEN [ok |-> TRUE, bytes |-> SubSeq(c, 3, Len(c))]
    ELSE IF Len(c) = 3 + LENGTH
         THEN [ok |-> TRUE,
               bytes |-> [i \in 1..GetU32(SubSeq(c, 4, 3 + LENGTH)) |-> c[3]]]
         ELSE [ok |-> FALSE, bytes |-> <<>>]

(* ------------------------------- encode -------------------------------- *)
\* a compression test that also compresses a message of exactly the limit
OverLimitInclusive(size) == size >= COMPRESSION_LIMIT

\* encode, line 47: size > COMPRESSION_LIMIT
OverLimit(size) == size > COMPRESSION_LIMIT

\* encode, lines 41-43: size > MAX_FRAME
ExceedsFrame(size) == size > MAX_FRAME

\* encode, lines 49-63, the compressed path on the buffer d1 that already
\* holds the size: msg is what split_off(LENGTH) leaves behind the first
\* LENGTH bytes of the buffer, the gzip writer appends to it, and the
\* cleared buffer gets the header and msg
EncodeCompressed(item, d1) ==
    LET msg == SubSeq(d1, LENGTH + 1, Len(d1)) \o GzEncode(ProstEncode(item))
    IN PutU32(OrCompressionBit(Len(msg))) \o msg

\* CompressionCodec::encode(item, dst): the result and the buffer afterwards
EncodeInto(item, d) ==
    LET size == EncodedLen(item) IN
    IF ExceedsFrame(size)
    THEN [res |-> "FrameError", dst |-> d]
    ELSE LET d1 == d \o PutU32(size) IN
         IF OverLimit(size)
         THEN [res |-> "Ok", dst |-> EncodeCompressed(item, d1)]
         ELSE [res |-> "Ok", dst |-> d1 \o ProstEncode(item)]

(* ------------------------------- decode -------------------------------- *)
\* a decode that takes everything the buffer holds with the frame
DecodeFromTakesAll(b) ==
    IF Len(b) < LENGTH
    THEN [res |-> "None", msg |-> DefaultMessage, buf |-> b]
    ELSE LET rest == SubSeq(b, LENGTH + 1, Len(b))
             pb == ProstDecode(rest)
         IN [res |-> IF pb.ok THEN "Some" ELSE "DecodeError",
             msg |-> pb.msg, buf |-> <<>>]

\* CompressionCodec::decode(buf): the result, the message and the buffer
\* afterwards.  get_u32 consumes the header before anything is checked;
\* &buf[..len] panics when the buffer holds fewer than len bytes; an error
\* of gzip or prost returns before buf.advance(len)
DecodeFrom(b) ==
    IF Len(b) < LENGTH
    THEN [res |-> "None", msg |-> DefaultMessage, buf |-> b]
    ELSE LET header == GetU32(SubSeq(b, 1, LENGTH))
             rest == SubSeq(b, LENGTH + 1, Len(b))
             len == header % COMPRESSION_BIT
             compressed == (header \div COMPRESSION_BIT) % 2 = 1
         IN IF len > Len(rest)
            THEN [res |-> "panic", msg |-> DefaultMessage, buf |-> rest]
            ELSE LET gz == GzDecode(SubSeq(rest, 1, len))
                     plain == IF compressed THEN gz.bytes
                              ELSE SubSeq(rest, 1, len)
                     pb == ProstDecode(plain)
                 IN IF compressed /\ ~gz.ok
                    THEN [res |-> "IOError", msg |-> DefaultMessage,
                          buf |-> rest]
                    ELSE IF ~pb.ok
                    THEN [res |-> "DecodeError", msg |-> DefaultMessage,
                          buf |-> rest]
                    ELSE [res |-> "Some", msg |-> pb.msg,
                          buf |-> SubSeq(rest, len + 1, Len(rest))]

(* ------------------------------- actions ------------------------------- *)
\* the messages encoded: of every size up to one past MAX_FRAME, with a
\* payload gzip packs (a run) and with one it has to store
Msgs == {Message([i \in 1..n |-> b]) : n \in 0..MAX_FRAME, b \in Byte}

CodecInit ==
    /\ dst = <<>>
    /\ buf = <<>>
    /\ items = <<>>
    /\ out = <<>>

\* a decode call has panicked: the task that owns the codec is gone
Panicked == \E d \in 1..Len(out) : out[d].res = "panic"

\* Encoder::encode(item, &mut dst)
Encode(item) ==
    /\ Len(items) < MaxItems
    /\ ~Panicked
    /\ LET r == EncodeInto(item, dst) IN
       /\ dst' = r.dst
       /\ items' = Append(items, [item |-> item, res |-> r.res,
                                  before |-> dst, after |-> r.dst])
    /\ UNCHANGED <<buf, out>>
    /\ UNCHANGED outsideCodec

\* the transport carries the next n bytes written to the peer's read buffer:
\* a whole segment, or all the bytes written when they are fewer
Arrive(n) ==
    /\ n \in 1..Len(dst)
    /\ n = Segment \/ n = Len(dst)
    /\ ~Panicked
    /\ buf' = buf \o SubSeq(dst, 1, n)
    /\ dst' = SubSeq(dst, n + 1, Len(dst))
    /\ UNCHANGED <<items, out>>
    /\ UNCHANGED outsideCodec

\* Decoder::decode(&mut buf)
Decode ==
    /\ Len(out) < MaxDecodes
    /\ ~Panicked
    /\ LET r == DecodeFrom(buf) IN
       /\ buf' = r.buf
       /\ out' = Append(out, [res |-> r.res, msg |-> r.msg,
                              before |-> buf, after |-> r.buf])
    /\ UNCHANGED <<dst, items>>
    /\ UNCHANGED outsideCodec

NextCodec ==
    \/ \E item \in Msgs : Encode(item)
    \/ \E n \in 1..(MaxItems * (U32 + LENGTH)) : Arrive(n)
    \/ Decode

(* ======================================================================= *)
(*        the one-shot commands (src/service/command_service.rs)           *)
(* ======================================================================= *)
\* number of keys or pairs in a multi-key command
MaxKeys == 2

Tables == {"t1"}
Keys == {"k1", "k2"}
\* Value::default(): a Value with no variant set, what a response shows as
\* null
Null == "null"
Values == {"v1", Null}

(* --------------------------- the storage port --------------------------- *)
\* Option<Value> as a sequence: None is <<>>, Some(v) is <<v>>
\* get(table, key)
Get(st, t, k) == IF <<t, k>> \in DOMAIN st THEN <<st[<<t, k>>]>> ELSE <<>>

\* contains(table, key)
Contains(st, t, k) == <<t, k>> \in DOMAIN st

\* the store after set(table, key, value); set returns Get of the store before
Set(st, t, k, v) ==
    [c \in (DOMAIN st) \cup {<<t, k>>} |-> IF c = <<t, k>> THEN v ELSE st[c]]

\* the store after del(table, key); del returns Get of the store before
Del(st, t, k) == [c \in (DOMAIN st) \ {<<t, k>>} |-> st[c]]

\* get_all(table): the pairs of the table
GetAll(st, t) == {<<k, st[<<t, k>>]>> : k \in {j \in Keys : <<t, j>> \in DOMAIN st}}

(* ------------------------------ responses ------------------------------ *)
\* KvError::NotFound(table, key) and its display text
NotFound(t, k) ==
    [kind |-> "NotFound",
     text |-> <<"Not found for table: ", t, ", key: ", k>>]

\* KvError::StorageError(op, table, key, detail) and its display text
StorageError(op, t, k) ==
    [kind |-> "StorageError",
     text |-> <<"Cannot process command ", op, " with table: ", t, ", key: ", k,
                ". Error: ", "detail">>]

\* From<Value> for CommandResponse
FromValue(v) ==
    [status |-> 200, message |-> <<>>, values |-> <<v>>, pairs |-> {}]

\* From<Vec<Value>> for CommandResponse
FromValues(vs) ==
    [status |-> 200, message |-> <<>>, values |-> vs, pairs |-> {}]

\* From<Vec<Kvpair>> for CommandResponse
FromPairs(ps) ==
    [status |-> 200, message |-> <<>>, values |-> <<>>, pairs |-> ps]

\* From<KvError> for CommandResponse: 500 but for NotFound (404) and
\* InvalidCommand (400), with the error's display text as message
FromKvError(e) ==
    [status |-> IF e.kind = "NotFound" THEN 404
                ELSE IF e.kind = "InvalidCommand" THEN 400 ELSE 500,
     message |-> e.text, values |-> <<>>, pairs |-> {}]

\* From<KvError> for Value: the default Value
ValueFromKvError(e) == Null

\* From<bool> for Value
FromBool(b) == IF b THEN "true" ELSE "false"

(* --------------------------- single-key commands ------------------------ *)
\* every execute below gives the response and the store afterwards; fail
\* says that the storage port returns an error for the call

\* an Hget that answers null for a key that is missing
HgetAnswersNull(st, t, k, fail) ==
    [resp |-> IF fail THEN FromKvError(StorageError("get", t, k))
              ELSE IF Get(st, t, k) = <<>> THEN FromValue(Null)
              ELSE FromValue(Get(st, t, k)[1]),
     store |-> st]

\* Hget::execute
HgetExecute(st, t, k, fail) ==
    [resp |-> IF fail THEN FromKvError(StorageError("get", t, k))
              ELSE IF Get(st, t, k) = <<>> THEN FromKvError(NotFound(t, k))
              ELSE FromValue(Get(st, t, k)[1]),
     store |-> st]

\* an Hset that answers with the value it has written
HsetAnswersNew(st, t, pair, fail) ==
    IF pair = <<>> THEN [resp |-> FromValue(Null), store |-> st]
    ELSE [resp |-> FromValue(pair[1].value),
          store |-> Set(st, t, pair[1].key, pair[1].value)]

\* Hset::execute; pair is <<>> (None) or one pair, whose value is Null when
\* it has none (unwrap_or_default)
HsetExecute(st, t, pair, fail) ==
    IF pair = <<>> THEN [resp |-> FromValue(Null), store |-> st]
    ELSE IF fail
    THEN [resp |-> FromKvError(StorageError("set", t, pair[1].key)), store |-> st]
    ELSE [resp |-> IF Get(st, t, pair[1].key) = <<>> THEN FromValue(Null)
                   ELSE FromValue(Get(st, t, pair[1].key)[1]),
          store |-> Set(st, t, pair[1].key, pair[1].value)]

\* an Hdel that answers and removes nothing
HdelKeeps(st, t, k, fail) ==
    [resp |-> IF Get(st, t, k) = <<>> THEN FromValue(Null)
              ELSE FromValue(Get(st, t, k)[1]),
     store |-> st]

\* Hdel::execute
HdelExecute(st, t, k, fail) ==
    IF fail
    THEN [resp |-> FromKvError(StorageError("del", t, k)), store |-> st]
    ELSE [resp |-> IF Get(st, t, k) = <<>> THEN FromValue(Null)
                   ELSE FromValue(Get(st, t, k)[1]),
          store |-> Del(st, t, k)]

\* Hexist::execute
HexistExecute(st, t, k, fail) ==
    [resp |-> IF fail THEN FromKvError(StorageError("contains", t, k))
              ELSE FromValue(FromBool(Contains(st, t, k))),
     store |-> st]

\* Hgetall::execute
HgetallExecute(st, t, fail) ==
    [resp |-> IF fail THEN FromKvError(StorageError("get_all", t, ""))
              ELSE FromPairs(GetAll(st, t)),
     store |-> st]

(* --------------------------- multi-key commands ------------------------- *)
\* the closures of the four map() calls: the value for one key or pair and
\* the store afterwards

\* Hmset, lines 75-78: Ok(Some(v)) => v, anything else the default Value
HmsetItem(st, t, pair, fail) ==
    IF fail THEN [value |-> Null, store |-> st]
    ELSE [value |-> IF Get(st, t, pair.key) = <<>> THEN Null
                    ELSE Get(st, t, pair.key)[1],
          store |-> Set(st, t, pair.key, pair.value)]

\* Hmget, lines 89-92
HmgetItem(st, t, k, fail) ==
    [value |-> IF fail \/ Get(st, t, k) = <<>> THEN Null ELSE Get(st, t, k)[1],
     store |-> st]

\* Hmexist, lines 101-104: an error becomes a Value through From<KvError>
HmexistItem(st, t, k, fail) ==
    [value |-> IF fail THEN ValueFromKvError(StorageError("contains", t, k))
               ELSE FromBool(Contains(st, t, k)),
     store |-> st]

\* Hmdel, lines 114-117
HmdelItem(st, t, k, fail) ==
    IF fail THEN [value |-> Null, store |-> st]
    ELSE [value |-> IF Get(st, t, k) = <<>> THEN Null ELSE Get(st, t, k)[1],
          store |-> Del(st, t, k)]

ItemOf(op, st, t, x, fail) ==
    CASE op = "Hmset" -> HmsetItem(st, t, x, fail)
      [] op = "Hmget" -> HmgetItem(st, t, x, fail)
      [] op = "Hmexist" -> HmexistItem(st, t, x, fail)
      [] op = "Hmdel" -> HmdelItem(st, t, x, fail)

\* iter().map(closure): the items from the i-th on, in order, each on the
\* store the one before it left; fails are the items for which the storage
\* port returns an error
RECURSIVE MapFrom(_, _, _, _, _, _)
MapFrom(op, st, t, list, fails, i) ==
    IF i > Len(list) THEN [values |-> <<>>, store |-> st]
    ELSE LET one == ItemOf(op, st, t, list[i], i \in fails)
             more == MapFrom(op, one.store, t, list, fails, i + 1)
         IN [values |-> <<one.value>> \o more.values, store |-> more.store]

\* a map() that computes every value on the store the command found
MapItemsOnFirstStore(op, st, t, list, fails) ==
    [values |-> [i \in 1..Len(list) |->
                    ItemOf(op, st, t, list[i], i \in fails).value],
     store |-> MapFrom(op, st, t, list, fails, 1).store]

\* .map(closure).collect::<Vec<_>>()
MapItems(op, st, t, list, fails) == MapFrom(op, st, t, list, fails, 1)

\* Hmset / Hmget / Hmexist / Hmdel ::execute
MultiExecute(op, st, t, list, fails) ==
    LET r == MapItems(op, st, t, list, fails)
    IN [resp |-> FromValues(r.values), store |-> r.store]

(* ------------------------------- actions ------------------------------- *)
Pairs == [key : Keys, value : Values]

\* the lists of at most MaxKeys elements of s, repeated elements included
Lists(s) == UNION {[1..n -> s] : n \in 0..MaxKeys}

\* the command executed becomes last; prev is the command executed before
\* it when that was an Hset of a pair or an Hdel on which the storage port
\* did not fail
Executed(req, fails, r) ==
    /\ store' = r.store
    /\ last' = <<[req |-> req, fails |-> fails, resp |-> r.resp,
                  before |-> store]>>
    /\ prev' = IF last = <<>> THEN <<>>
               ELSE IF /\ last[1].fails = {}
                       /\ \/ last[1].req.op = "Hdel"
                          \/ last[1].req.op = "Hset" /\ last[1].req.pair # <<>>
               THEN <<[req |-> last[1].req, resp |-> last[1].resp]>> ELSE <<>>
    /\ UNCHANGED outsideStore

Fails(fail) == IF fail THEN {1} ELSE {}

Hget(t, k, fail) ==
    Executed([op |-> "Hget", table |-> t, key |-> k], Fails(fail),
             HgetExecute(store, t, k, fail))

Hset(t, pair, fail) ==
    /\ pair = <<>> => ~fail
    /\ Executed([op |-> "Hset", table |-> t, pair |-> pair], Fails(fail),
                HsetExecute(store, t, pair, fail))

Hdel(t, k, fail) ==
    Executed([op |-> "Hdel", table |-> t, key |-> k], Fails(fail),
             HdelExecute(store, t, k, fail))

Hexist(t, k, fail) ==
    Executed([op |-> "Hexist", table |-> t, key |-> k], Fails(fail),
             HexistExecute(store, t, k, fail))

Hgetall(t, fail) ==
    Executed([op |-> "Hgetall", table |-> t], Fails(fail),
             HgetallExecute(store, t, fail))

Hmget(t, keys, fails) ==
    /\ fails \subseteq DOMAIN keys
    /\ Executed([op |-> "Hmget", table |-> t, keys |-> keys], fails,
                MultiExecute("Hmget", store, t, keys, fails))

Hmset(t, pairs, fails) ==
    /\ fails \subseteq DOMAIN pairs
    /\ Executed([op |-> "Hmset", table |-> t, pairs |-> pairs], fails,
                MultiExecute("Hmset", store, t, pairs, fails))

Hmdel(t, keys, fails) ==
    /\ fails \subseteq DOMAIN keys
    /\ Executed([op |-> "Hmdel", table |-> t, keys |-> keys], fails,
                MultiExecute("Hmdel", store, t, keys, fails))

Hmexist(t, keys, fails) ==
    /\ fails \subseteq DOMAIN keys
    /\ Executed([op |-> "Hmexist", table |-> t, keys |-> keys], fails,
                MultiExecute("Hmexist", store, t, keys, fails))

\* RequestData::execute: one arm for each one-shot variant
NextStore ==
    \/ \E t \in Tables, k \in Keys, fail \in BOOLEAN : Hget(t, k, fail)
    \/ \E t \in Tables, pair \in {<<>>} \cup {<<p>> : p \in Pairs},
          fail \in BOOLEAN : Hset(t, pair, fail)
    \/ \E t \in Tables, k \in Keys, fail \in BOOLEAN : Hdel(t, k, fail)
    \/ \E t \in Tables, k \in Keys, fail \in BOOLEAN : Hexist(t, k, fail)
    \/ \E t \in Tables, fail \in BOOLEAN : Hgetall(t, fail)
    \/ \E t \in Tables, keys \in Lists(Keys), fails \in SUBSET (1..MaxKeys) :
          Hmget(t, keys, fails)
    \/ \E t \in Tables, pairs \in Lists(Pairs), fails \in SUBSET (1..MaxKeys) :
          Hmset(t, pairs, fails)
    \/ \E t \in Tables, keys \in Lists(Keys), fails \in SUBSET (1..MaxKeys) :
          Hmdel(t, keys, fails)
    \/ \E t \in Tables, keys \in Lists(Keys), fails \in SUBSET (1..MaxKeys) :
          Hmexist(t, keys, fails)


(* ======================================================================= *)
(*                  the dispatcher (src/service/mod.rs)                    *)
(* ======================================================================= *)
\* number of hooks of one kind registered
MaxHooks == 2

\* the on_received hooks registered: closures that observe the request
OnReceived == {"r1", "r2"}
\* the before_send hooks registered: "created" sets the status to 201 (the
\* hook of the test hook_should_work), "seen" notes in the message the status
\* it found
BeforeSend == {"created", "seen"}

(* ------------------------------ requests ------------------------------- *)
\* a CommandRequest is <<>> when request_data is None and <<req>> when it is
\* Some(req)
NoData == <<>>

\* the one-shot requests executed: one of each of the nine variants
OneShots ==
    {[op |-> "Hget", table |-> "t1", key |-> "k1"],
     [op |-> "Hset", table |-> "t1", pair |-> <<[key |-> "k1", value |-> "v1"]>>],
     [op |-> "Hdel", table |-> "t1", key |-> "k1"],
     [op |-> "Hexist", table |-> "t1", key |-> "k1"],
     [op |-> "Hgetall", table |-> "t1"],
     [op |-> "Hmget", table |-> "t1", keys |-> <<"k1">>],
     [op |-> "Hmset", table |-> "t1", pairs |-> <<[key |-> "k1", value |-> "v1"]>>],
     [op |-> "Hmdel", table |-> "t1", keys |-> <<"k1">>],
     [op |-> "Hmexist", table |-> "t1", keys |-> <<"k1">>]}

\* the streaming requests executed
Streamings ==
    {[op |-> "Subscribe", topic |-> "a"], [op |-> "Publish", topic |-> "a"]}
        \cup {[op |-> "Unsubscribe", topic |-> "a", id |-> i] : i \in Ids}

\* RequestData::is_streaming
IsStreaming(req) == req.op \in {"Subscribe", "Unsubscribe", "Publish"}

\* KvError::InvalidCommand(text) and its display text, the text in quotes
InvalidCommand(text) ==
    [kind |-> "InvalidCommand", text |-> <<"Cannot parse command: ", text>>]

\* a response of the broadcaster with the fields it leaves at their default
Response(r) ==
    [status |-> r.status, message |-> <<>>, values |-> r.values, pairs |-> {}]

\* stream::once(response): a stream of one element
Once(resp) == [kind |-> "once", items |-> <<resp>>]

\* ReceiverStream::new(rx): the stream of what the mailbox of id receives
ReceiverStream(id) == [kind |-> "receiver", id |-> id]

(* ------------------------------ one-shot -------------------------------- *)
\* RequestData::execute (CommandService): the arm of the variant
RequestDataExecute(req, st, fails) ==
    CASE req.op = "Hget" -> HgetExecute(st, req.table, req.key, fails # {})
      [] req.op = "Hset" -> HsetExecute(st, req.table, req.pair, fails # {})
      [] req.op = "Hdel" -> HdelExecute(st, req.table, req.key, fails # {})
      [] req.op = "Hexist" -> HexistExecute(st, req.table, req.key, fails # {})
      [] req.op = "Hgetall" -> HgetallExecute(st, req.table, fails # {})
      [] req.op = "Hmget" -> MultiExecute("Hmget", st, req.table, req.keys, fails)
      [] req.op = "Hmset" -> MultiExecute("Hmset", st, req.table, req.pairs, fails)
      [] req.op = "Hmdel" -> MultiExecute("Hmdel", st, req.table, req.keys, fails)
      [] req.op = "Hmexist" -> MultiExecute("Hmexist", st, req.table, req.keys, fails)

\* CommandRequest::dispatch(store): the response and the store afterwards
Dispatch(cmd, st, fails) ==
    IF cmd = NoData
    THEN [resp |-> FromKvError(InvalidCommand("Request has no data")), store |-> st]
    ELSE IF IsStreaming(cmd[1])
    THEN [resp |-> FromKvError(InvalidCommand("Not command")), store |-> st]
    ELSE RequestDataExecute(cmd[1], st, fails)

(* ------------------------------ streaming ------------------------------- *)
\* Subscribe::execute: chan.subscribe(topic), lines 49-68 of topic.rs, run
\* from its first to its last line
SubscribeCall(name) ==
    /\ NEXT_ID \in Ids
    /\ Room(Len(subs) + 1, Len(unsubs), Len(pubs))
    /\ topics' = TopicsInsert(topics, name, NEXT_ID)
    /\ NEXT_ID' = FetchAdd(NEXT_ID)
    /\ subscriptions' = subscriptions \cup {NEXT_ID}
    /\ idTask' = [idTask EXCEPT ![NEXT_ID] = "pending"]
    /\ chan' = [chan EXCEPT ![NEXT_ID] = <<>>]
    /\ rx' = [rx EXCEPT ![NEXT_ID] = "alive"]
    /\ subs' = Append(subs, [name |-> name, id |-> NEXT_ID, pc |-> "returned",
                             after |-> Returned])
    /\ UNCHANGED <<unsubs, pubs, ackTask, received>>

\* Unsubscribe::execute: chan.unsubscribe(topic, id), lines 70-95 of topic.rs,
\* run from its first to its last line
UnsubscribeCall(name, id) ==
    /\ Room(Len(subs), Len(unsubs) + 1, Len(pubs))
    /\ ~Held(id)
    /\ topics' = IF TopicStepEmptied(topics, name, id)
                 THEN TopicsRemove(TopicStepMap(topics, name, id), name)
                 ELSE TopicStepMap(topics, name, id)
    /\ subscriptions' = subscriptions \ {id}
    /\ ackTask' = IF id \in subscriptions
                  THEN [ackTask EXCEPT ![id] = "pending"] ELSE ackTask
    /\ unsubs' = Append(unsubs,
          [name |-> name, id |-> id,
           pc |-> IF id \in subscriptions THEN "ok" ELSE "notfound",
           changed |-> TopicStepMap(topics, name, id) # topics,
           quiet |-> Quiescent,
           cleaned |-> id \in CleanedUp,
           closed |-> rx[id] = "dropped",
           sentBefore |-> IF id \in subscriptions THEN Len(Delivered(id)) ELSE 0])
    /\ UNCHANGED <<NEXT_ID, subs, pubs, idTask, chan, rx, received>>

\* Publish::execute: chan.publish(topic, data) spawns the fan-out task
PublishCall(name) ==
    /\ Room(Len(subs), Len(unsubs), Len(pubs) + 1)
    /\ pubs' = Append(pubs,
          [name |-> name, pc |-> "spawned", todo |-> {}, hold |-> 0,
           ids |-> <<>>, rpc |-> "topic", res |-> <<CommandResponseOk>>,
           okBefore |-> UnsubOk,
           active |-> ReturnedOn(name) \ UnsubNamed,
           gone |-> {}])
    /\ UNCHANGED <<NEXT_ID, topics, subscriptions, subs, unsubs, idTask,
                   ackTask, chan, rx, received>>

\* RequestData::execute (TopicService): the arm of the variant, what it does
\* to the broadcaster
TopicServiceExecute(req) ==
    CASE req.op = "Subscribe" -> SubscribeCall(req.topic)
      [] req.op = "Unsubscribe" -> UnsubscribeCall(req.topic, req.id)
      [] req.op = "Publish" -> PublishCall(req.topic)

\* ... and the stream it returns: the receiver for Subscribe; ok() or the
\* NotFound error for Unsubscribe; ok() for Publish
TopicServiceStream(req) ==
    CASE req.op = "Subscribe" -> ReceiverStream(NEXT_ID)
      [] req.op = "Unsubscribe" ->
            IF req.id \in subscriptions
            THEN Once(Response(CommandResponseOk))
            ELSE Once(FromKvError(NotFound(req.topic, "subscription " \o ToString(req.id))))
      [] req.op = "Publish" -> Once(Response(CommandResponseOk))

\* CommandRequest::dispatch_streaming(topic): the stream returned
DispatchStreaming(cmd) ==
    IF cmd = NoData
    THEN Once(FromKvError(InvalidCommand("Request has no data")))
    ELSE IF ~IsStreaming(cmd[1])
    THEN Once(FromKvError(InvalidCommand("Not streaming command")))
    ELSE TopicServiceStream(cmd[1])

(* -------------------------------- hooks -------------------------------- *)
\* what a call of Service::execute does, in order: a hook called with its
\* position in its list, or the dispatch
Called(kind, cbs) == [i \in 1..Len(cbs) |-> [kind |-> kind, at |-> i, hook |-> cbs[i]]]
Dispatched(to) == [kind |-> "dispatch", at |-> 0, hook |-> to]

\* a process_events that calls the first hook only
ProcessEventsFirstOnly(cbs) ==
    Called("on_received", IF cbs = <<>> THEN <<>> ELSE <<cbs[1]>>)

\* Processor::process_events(&cmd): every callback, in the order of the Vec
ProcessEvents(cbs) == Called("on_received", cbs)

\* one before_send hook applied to the response
CallMut(h, res) ==
    CASE h = "created" -> [res EXCEPT !.status = 201]
      [] h = "seen" -> [res EXCEPT !.message = Append(@, "seen " \o ToString(res.status))]

\* for cb in list { cb(res) }: each callback on what the one before it left
RECURSIVE CallEach(_, _)
CallEach(list, res) ==
    IF list = <<>> THEN res
    ELSE CallEach(Tail(list), CallMut(Head(list), res))

\* a process_events_mut that runs the callbacks from the last to the first
ProcessEventsMutBackwards(mcbs, res) ==
    CallEach([i \in 1..Len(mcbs) |-> mcbs[Len(mcbs) + 1 - i]], res)

\* Processor::process_events_mut(&mut res): every callback, in the order of
\* the Vec
ProcessEventsMut(mcbs, res) == CallEach(mcbs, res)

(* --------------------------- Service::execute --------------------------- *)
\* an execute that sends every request to the store
ServiceExecuteToStore(cmd, cbs, mcbs, st, fails) ==
    LET r == Dispatch(cmd, st, fails)
    IN [path |-> "storage",
        trace |-> ProcessEvents(cbs) \o <<Dispatched("storage")>>
                      \o Called("before_send", mcbs),
        res |-> Once(ProcessEventsMut(mcbs, r.resp)),
        store |-> r.store]

\* Service::execute(cmd), lines 110-123: the hooks called and the dispatch
\* made, in order, the stream returned and the store afterwards; path says
\* which of the two branches ran
ServiceExecute(cmd, cbs, mcbs, st, fails) ==
    IF cmd # NoData /\ IsStreaming(cmd[1])
    THEN [path |-> "broadcaster",
          trace |-> ProcessEvents(cbs) \o <<Dispatched("broadcaster")>>,
          res |-> DispatchStreaming(cmd),
          store |-> st]
    ELSE LET r == Dispatch(cmd, st, fails)
         IN [path |-> "storage",
             trace |-> ProcessEvents(cbs) \o <<Dispatched("storage")>>
                           \o Called("before_send", mcbs),
             res |-> Once(ProcessEventsMut(mcbs, r.resp)),
             store |-> r.store]

(* ------------------------------- actions ------------------------------- *)
ServiceInit ==
    /\ callbacks = <<>>
    /\ mut_callbacks = <<>>
    /\ built = FALSE
    /\ exec = <<>>

\* ServiceInner::received_callback(c)
ReceivedCallback(c) ==
    /\ ~built
    /\ Len(callbacks) < MaxHooks
    /\ callbacks' = Append(callbacks, c)
    /\ UNCHANGED <<mut_callbacks, built, exec>>
    /\ UNCHANGED <<topicVars, storeVars>>
    /\ UNCHANGED outsideService

\* ServiceInner::before_send_callback(c)
BeforeSendCallback(c) ==
    /\ ~built
    /\ Len(mut_callbacks) < MaxHooks
    /\ mut_callbacks' = Append(mut_callbacks, c)
    /\ UNCHANGED <<callbacks, built, exec>>
    /\ UNCHANGED <<topicVars, storeVars>>
    /\ UNCHANGED outsideService

\* From<ServiceInner> for Service (and Service::new, with no hook)
Build ==
    /\ ~built
    /\ built' = TRUE
    /\ UNCHANGED <<callbacks, mut_callbacks, exec>>
    /\ UNCHANGED <<topicVars, storeVars>>
    /\ UNCHANGED outsideService

\* a call of Service::execute(cmd), kept in exec with the store and the
\* broadcaster it found
Execute(cmd) ==
    /\ built
    /\ LET r == ServiceExecute(cmd, callbacks, mut_callbacks, store, {}) IN
       /\ exec' = <<[cmd |-> cmd, path |-> r.path, trace |-> r.trace,
                     res |-> r.res, store |-> store, broadcaster |-> topicVars]>>
       /\ store' = r.store
       /\ IF r.path = "broadcaster"
          THEN TopicServiceExecute(cmd[1])
          ELSE UNCHANGED topicVars
    /\ UNCHANGED <<callbacks, mut_callbacks, built, last, prev>>
    /\ UNCHANGED outsideService

NextService ==
    \/ \E c \in OnReceived : ReceivedCallback(c)
    \/ \E c \in BeforeSend : BeforeSendCallback(c)
    \/ Build
    \/ \E cmd \in {NoData} \cup {<<r>> : r \in OneShots \cup Streamings} :
          Execute(cmd)

(* ======================================================================= *)
(*           the client's StreamResult (src/network/stream_result.rs)      *)
(* ======================================================================= *)
\* number of items the inner stream carries
MaxStream == 3

\* the items of the inner stream: Ok(response) with a status and values, or
\* Err(transport error)
StreamValues == {<<>>, << <<"Integer", 1>> >>, << <<"String", 1>> >>,
                 << <<"Integer", 2>>, <<"String", 1>> >>}
StreamItems ==
    {[ok |-> TRUE, resp |-> [status |-> s, values |-> v]] :
         s \in {0, 200, 404}, v \in StreamValues}
        \cup {[ok |-> FALSE, resp |-> [status |-> 0, values |-> <<>>]]}

\* KvError::Internal(text) and its display text
Internal(text) == [kind |-> "Internal", text |-> <<"Internal error: ", text>>]

\* TryFrom<&Value> for i64: the integer of an Integer value, an error for
\* every other value
TryIntoI64(v) ==
    IF v[1] = "Integer" THEN [ok |-> TRUE, i |-> v[2]] ELSE [ok |-> FALSE, i |-> 0]

\* id as u32
AsU32(i) == i % U32

\* StreamResult::new, lines 26-44, on the first item of the stream (<<>> at
\* the end of the stream): try_into().unwrap() panics for a first value that
\* is no integer
StreamResultNew(first) ==
    IF first # <<>> /\ first[1].ok /\ first[1].resp.status = 200
    THEN IF first[1].resp.values = <<>>
         THEN [res |-> "Err", id |-> 0, err |-> <<Internal("Invalid stream")>>]
         ELSE IF TryIntoI64(first[1].resp.values[1]).ok
         THEN [res |-> "Ok", id |-> AsU32(TryIntoI64(first[1].resp.values[1]).i),
               err |-> <<>>]
         ELSE [res |-> "panic", id |-> 0, err |-> <<>>]
    ELSE [res |-> "Err", id |-> 0, err |-> <<Internal("Invalid stream")>>]

\* a poll_next that forwards whatever the inner stream yields
PollNextVerbatim(v) == v

\* StreamResult::poll_next, lines 53-63, on what the inner stream is ready
\* with (<<>> for None): Ok of a status 0 becomes None, all else is forwarded
PollNextOf(v) ==
    IF v # <<>> /\ v[1].ok /\ v[1].resp.status = 0 THEN <<>> ELSE v

(* ------------------------------- actions ------------------------------- *)
StreamInit ==
    /\ inner = <<>>
    /\ ended = FALSE
    /\ taken = <<>>
    /\ result = <<>>
    /\ yielded = <<>>

\* the transport delivers the next item of the stream
Feed(item) ==
    /\ ~ended
    /\ Len(taken) + Len(inner) < MaxStream
    /\ inner' = Append(inner, item)
    /\ UNCHANGED <<ended, taken, result, yielded>>
    /\ UNCHANGED outsideStream

\* the transport closes: the stream ends after the items delivered
End ==
    /\ ~ended
    /\ ended' = TRUE
    /\ UNCHANGED <<inner, taken, result, yielded>>
    /\ UNCHANGED outsideStream

\* what stream.next() is ready with: the next item, or <<>> at the end
Ready == IF inner # <<>> THEN <<Head(inner)>> ELSE <<>>

\* StreamResult::new(stream).await
New ==
    /\ result = <<>>
    /\ inner # <<>> \/ ended
    /\ result' = <<StreamResultNew(Ready)>>
    /\ taken' = taken \o Ready
    /\ inner' = IF inner # <<>> THEN Tail(inner) ELSE inner
    /\ UNCHANGED <<ended, yielded>>
    /\ UNCHANGED outsideStream

\* stream.next().await on the StreamResult
PollNext ==
    /\ result # <<>>
    /\ result[1].res = "Ok"
    /\ inner # <<>> \/ ended
    /\ Len(yielded) < MaxStream
    /\ yielded' = Append(yielded, PollNextOf(Ready))
    /\ taken' = taken \o Ready
    /\ inner' = IF inner # <<>> THEN Tail(inner) ELSE inner
    /\ UNCHANGED <<ended, result>>
    /\ UNCHANGED outsideStream

NextStream ==
    \/ \E item \in StreamItems : Feed(item)
    \/ End
    \/ New
    \/ PollNext

(* ======================================================================= *)
(*     the yamux client (src/network/multiplex/yamux_multiplex.rs)         *)
(* ======================================================================= *)
\* number of open_stream calls explored
MaxOpens == 3
\* capacity of the control channel explored (mpsc::channel(32) in the source,
\* scaled down so that a full channel is reachable)
ControlCapacity == 2

\* a call of open_stream is between two of its lines
Pending(k) == opens[k].pc \in {"sending", "sent"}

\* the driver task has ended: its mpsc Receiver and its Connection are gone
DriverGone == driver.pc = "panicked"

\* the one-shot Receiver of call k is still there to take the reply
ReplyAwaited(k) == opens[k].pc = "sent"

(* ------------------------------- actions ------------------------------- *)
\* YamuxCtrl::new_client: the channel is empty and the driver task is spawned
MuxInit ==
    /\ control = <<>>
    /\ opens = <<>>
    /\ driver = [pc |-> "select", req |-> 0]
    /\ outbound = <<>>

\* open_stream, line 96: the one-shot channel is created and the call is
\* about to send its ControlMessage
OpenStream ==
    /\ Len(opens) < MaxOpens
    /\ opens' = Append(opens, [pc |-> "sending", after |-> {j \in 1..Len(opens) :
                                                       opens[j].pc = "dropped"}])
    /\ UNCHANGED <<control, driver, outbound>>
    /\ UNCHANGED outsideMux

\* open_stream, lines 97-100: sender.send(OpenStream(resp_sender)).await
\* .unwrap() waits while the channel is full and panics when the driver's
\* Receiver is gone
OpenStreamSend(k) ==
    /\ opens[k].pc = "sending"
    /\ IF DriverGone
       THEN /\ opens' = [opens EXCEPT ![k].pc = "panicked"]
            /\ UNCHANGED control
       ELSE /\ Len(control) < ControlCapacity
            /\ control' = Append(control, k)
            /\ opens' = [opens EXCEPT ![k].pc = "sent"]
    /\ UNCHANGED <<driver, outbound>>
    /\ UNCHANGED outsideMux

\* the caller drops the future of open_stream while it is pending: before
\* its request is in the channel ("cancelled") or after ("dropped", the
\* one-shot Receiver is gone, and with it a reply it holds already)
DropOpenStream(k) ==
    /\ Pending(k)
    /\ opens' = [opens EXCEPT ![k].pc = IF opens[k].pc = "sending"
                                          THEN "cancelled" ELSE "dropped"]
    /\ outbound' = [i \in 1..Len(outbound) |->
                       IF outbound[i].for = k /\ outbound[i].state = "reply"
                       THEN [outbound[i] EXCEPT !.state = "closed"]
                       ELSE outbound[i]]
    /\ UNCHANGED <<control, driver>>
    /\ UNCHANGED outsideMux

\* the driver, line 49: receiver.recv() yields the next ControlMessage
DriverRecv ==
    /\ driver.pc = "select"
    /\ control # <<>>
    /\ driver' = [pc |-> "opening", req |-> Head(control)]
    /\ control' = Tail(control)
    /\ UNCHANGED <<opens, outbound>>
    /\ UNCHANGED outsideMux

\* the driver, lines 52-56: poll_new_outbound gives the new stream and
\* resp_sender.send(stream).unwrap() hands it over; send returns Err(stream)
\* when the one-shot Receiver is gone and the unwrap panics: the task ends,
\* the stream, the Connection (with the streams handed out) and the channel
\* with its messages are dropped
DriverReply ==
    /\ driver.pc = "opening"
    /\ IF ReplyAwaited(driver.req)
       THEN /\ outbound' = Append(outbound, [for |-> driver.req, state |-> "reply"])
            /\ driver' = [pc |-> "select", req |-> 0]
            /\ UNCHANGED control
       ELSE /\ outbound' = [i \in 1..(Len(outbound) + 1) |->
                               IF i > Len(outbound)
                               THEN [for |-> driver.req, state |-> "closed"]
                               ELSE IF outbound[i].state = "client"
                               THEN [outbound[i] EXCEPT !.state = "closed"]
                               ELSE outbound[i]]
            /\ driver' = [pc |-> "panicked", req |-> driver.req]
            /\ control' = <<>>
    /\ UNCHANGED opens
    /\ UNCHANGED outsideMux

\* the stream the driver has sent to call k and that is still in the
\* one-shot channel, 0 when there is none
ReplyFor(k) ==
    IF \E i \in 1..Len(outbound) : outbound[i].for = k /\ outbound[i].state = "reply"
    THEN CHOOSE i \in 1..Len(outbound) :
             outbound[i].for = k /\ outbound[i].state = "reply"
    ELSE 0

\* the one-shot Sender of call k is gone without a reply: the driver has
\* ended with the message of k in hand or in the channel
ReplyLost(k) == DriverGone /\ ReplyFor(k) = 0

\* open_stream, lines 101-103: resp_receiver.await.unwrap() returns the
\* stream, or panics when the Sender is gone without a reply
OpenStreamRecv(k) ==
    /\ opens[k].pc = "sent"
    /\ \/ /\ ReplyFor(k) # 0
          /\ opens' = [opens EXCEPT ![k].pc = "done"]
          /\ outbound' = [outbound EXCEPT ![ReplyFor(k)].state =
                             IF DriverGone THEN "closed" ELSE "client"]
       \/ /\ ReplyLost(k)
          /\ opens' = [opens EXCEPT ![k].pc = "panicked"]
          /\ UNCHANGED outbound
    /\ UNCHANGED <<control, driver>>
    /\ UNCHANGED outsideMux

NextMux ==
    \/ OpenStream
    \/ \E k \in 1..Len(opens) : OpenStreamSend(k)
    \/ \E k \in 1..Len(opens) : DropOpenStream(k)
    \/ DriverRecv
    \/ DriverReply
    \/ \E k \in 1..Len(opens) : OpenStreamRecv(k)

(* ======================================================================= *)
(*   the server's logical streams (src/network/mod.rs, ServerStream, and   *)
(*   the tasks that serve them, src/network/multiplex, src/server.rs)      *)
(* ======================================================================= *)
\* number of requests the client sends over the streams of the connection
MaxRequests == 3

\* the logical streams of one mux connection, each served by a task of its
\* own that runs ServerStream::process and ends with it (run_quic_server,
\* the server that main runs)
Streams == {"alpha", "beta"}

\* the requests the client sends
ServerRequests ==
    {NoData,
     <<[op |-> "Hset", table |-> "t1", pair |-> <<[key |-> "k1", value |-> "v1"]>>]>>,
     <<[op |-> "Hget", table |-> "t1", key |-> "k1"]>>,
     <<[op |-> "Subscribe", topic |-> "a"]>>,
     <<[op |-> "Unsubscribe", topic |-> "a", id |-> 1]>>,
     <<[op |-> "Publish", topic |-> "a"]>>}

\* data.into(): From<Arc<CommandResponse>> copies the four fields
FromArc(a) ==
    [status |-> a.status, message |-> a.message, values |-> a.values,
     pairs |-> a.pairs]

\* a scheduling in which the streams of a connection are served one after
\* the other: a stream is read only while no other one is being answered
RunnableInTurn(s) ==
    /\ task[s] = "next"
    /\ \A o \in Streams \ {s} : task[o] # "res"

\* a loop that reads the next request while the stream res is still open
RunnableAlways(s) == task[s] \in {"next", "res"}

\* the future of stream s is polled on its own, whatever the futures of the
\* other streams wait for (try_for_each_concurrent, or a task per stream),
\* and it is at self.inner.next().await
Runnable(s) == task[s] = "next"

\* the stream res of stream s is the receiver of a subscription
Receiving(s) == task[s] = "res" /\ resStream[s].kind = "receiver"

\* res.next() is ready with an item
ResReady(s) ==
    IF resStream[s].kind = "once" THEN resStream[s].items # <<>>
    ELSE rx[resStream[s].id] = "alive" /\ chan[resStream[s].id] # <<>>

\* res.next() is ready with None
ResDone(s) ==
    IF resStream[s].kind = "once" THEN resStream[s].items = <<>>
    ELSE /\ rx[resStream[s].id] = "alive"
         /\ chan[resStream[s].id] = <<>>
         /\ ~SendersAlive(resStream[s].id)

\* the item res.next() yields
ResItem(s) ==
    IF resStream[s].kind = "once" THEN Head(resStream[s].items)
    ELSE Response(Head(chan[resStream[s].id]))

\* the requests decoded so far on stream s, in order
HandledOn(s) == SelectSeq(handled, LAMBDA h : h.stream = s)

\* the subscriptions whose stream the client has dropped by now, after it
\* had got the id of the subscription on it
Orphans ==
    {resStream[s].id : s \in {o \in Streams :
        /\ resStream[o].kind = "receiver"
        /\ client[o].state # "open"
        /\ client[o].got > HandledOn(o)[Len(HandledOn(o))].at}}

(* ------------------------------- actions ------------------------------- *)
\* the connection is accepted: a ServerStream per logical stream, each at
\* the head of its loop, all on one Service (Service::new, no hook)
ServerInit ==
    /\ inbox = [s \in Streams |-> <<>>]
    /\ task = [s \in Streams |-> "next"]
    /\ resStream = [s \in Streams |-> [kind |-> "once", items |-> <<>>]]
    /\ sent = [s \in Streams |-> <<>>]
    /\ client = [s \in Streams |-> [state |-> "open", got |-> 0]]
    /\ handled = <<>>

\* the client writes a request to stream s; it arrives in order
ClientSend(s, cmd) ==
    /\ client[s].state = "open"
    /\ Len(handled) + Len(inbox["alpha"]) + Len(inbox["beta"]) < MaxRequests
    /\ inbox' = [inbox EXCEPT ![s] = Append(@, cmd)]
    /\ UNCHANGED <<task, resStream, sent, client, handled>>
    /\ UNCHANGED <<topicVars, storeVars>>
    /\ UNCHANGED outsideServer

\* the client drops stream s: the mux resets it and the reset reaches the
\* server; what is written from now on fails and reading reaches the end
\* after what has arrived
ClientDrop(s) ==
    /\ client[s].state = "open"
    /\ client' = [client EXCEPT ![s] = [state |-> "reset", got |-> Len(sent[s])]]
    /\ UNCHANGED <<inbox, task, resStream, sent, handled>>
    /\ UNCHANGED <<topicVars, storeVars>>
    /\ UNCHANGED outsideServer

\* process, lines 98-100: self.inner.next() yields Some(Ok(cmd)) and
\* self.service.execute(cmd) gives the stream res; fails is where the
\* storage fails, for a request that reaches it
ServerNext(s, fails) ==
    /\ Runnable(s)
    /\ inbox[s] # <<>>
    /\ LET cmd == Head(inbox[s])
           r == ServiceExecute(cmd, <<>>, <<>>, store, fails) IN
       /\ fails # {} => (cmd # NoData /\ r.path = "storage")
       /\ inbox' = [inbox EXCEPT ![s] = Tail(@)]
       /\ task' = [task EXCEPT ![s] = "res"]
       /\ resStream' = [resStream EXCEPT ![s] = r.res]
       /\ store' = r.store
       /\ handled' = Append(handled,
              [stream |-> s, cmd |-> cmd, fails |-> fails, at |-> Len(sent[s]),
               before |-> store, after |-> r.store,
               pub |-> IF r.path = "broadcaster" /\ cmd[1].op = "Publish"
                       THEN Len(pubs) + 1 ELSE 0,
               orphans |-> Orphans,
               closed |-> {i \in Orphans : rx[i] = "dropped"},
               waiting |-> {o \in Streams : Receiving(o) /\ ~ResReady(o)}])
       /\ IF r.path = "broadcaster"
          THEN TopicServiceExecute(cmd[1])
          ELSE UNCHANGED topicVars
    /\ UNCHANGED <<sent, client, last, prev>>
    /\ UNCHANGED outsideServer

\* a send that also fails for a response made from an error
SendFailsOnError(s) == client[s].state = "reset" \/ ResItem(s).status >= 400

\* self.inner.send(data.into()).await fails: the stream was reset
SendFails(s) == client[s].state = "reset"

\* process, lines 101-102: res.next() yields Some(data) and
\* self.inner.send(data.into()).await? writes it; on a stream that was reset
\* the send fails, process returns the error and res is dropped
ServerSend(s) ==
    /\ task[s] = "res"
    /\ ResReady(s)
    /\ IF SendFails(s)
       THEN /\ task' = [task EXCEPT ![s] = "failed"]
            /\ UNCHANGED <<sent, resStream>>
            /\ IF resStream[s].kind = "receiver"
               THEN /\ rx' = [rx EXCEPT ![resStream[s].id] = "dropped"]
                    /\ chan' = [chan EXCEPT ![resStream[s].id] = <<>>]
                    /\ UNCHANGED received
               ELSE UNCHANGED <<rx, chan, received>>
       ELSE /\ sent' = [sent EXCEPT ![s] = Append(@, FromArc(ResItem(s)))]
            /\ UNCHANGED <<task, rx>>
            /\ IF resStream[s].kind = "receiver"
               THEN /\ chan' = [chan EXCEPT ![resStream[s].id] = Tail(@)]
                    /\ received' = [received EXCEPT ![resStream[s].id] =
                                       Append(@, Head(chan[resStream[s].id]))]
                    /\ UNCHANGED resStream
               ELSE /\ resStream' = [resStream EXCEPT ![s].items = Tail(@)]
                    /\ UNCHANGED <<chan, received>>
    /\ UNCHANGED <<inbox, client, handled>>
    /\ UNCHANGED <<NEXT_ID, topics, subscriptions, subs, unsubs, pubs, idTask,
                   ackTask>>
    /\ UNCHANGED storeVars
    /\ UNCHANGED outsideServer

\* process, line 101: res.next() yields None, back to the head of the loop
ServerResEnd(s) ==
    /\ task[s] = "res"
    /\ ResDone(s)
    /\ task' = [task EXCEPT ![s] = "next"]
    /\ rx' = IF resStream[s].kind = "receiver"
             THEN [rx EXCEPT ![resStream[s].id] = "eos"] ELSE rx
    /\ UNCHANGED <<inbox, resStream, sent, client, handled>>
    /\ UNCHANGED <<NEXT_ID, topics, subscriptions, subs, unsubs, pubs, idTask,
                   ackTask, chan, received>>
    /\ UNCHANGED storeVars
    /\ UNCHANGED outsideServer

\* process, lines 98 and 105-106: self.inner.next() yields None at the end
\* of a stream that was reset and process returns Ok
ServerEof(s) ==
    /\ Runnable(s)
    /\ inbox[s] = <<>>
    /\ client[s].state = "reset"
    /\ task' = [task EXCEPT ![s] = "ended"]
    /\ UNCHANGED <<inbox, resStream, sent, client, handled>>
    /\ UNCHANGED <<topicVars, storeVars>>
    /\ UNCHANGED outsideServer

NextServer ==
    \/ \E s \in Streams, cmd \in ServerRequests : ClientSend(s, cmd)
    \/ \E s \in Streams : ClientDrop(s)
    \/ \E s \in Streams, fails \in {{}, {1}} : ServerNext(s, fails)
    \/ \E s \in Streams : ServerSend(s)
    \/ \E s \in Streams : ServerResEnd(s)
    \/ \E s \in Streams : ServerEof(s)
    \/ \E id \in Ids : IdSend(id)
    \/ \E id \in Ids : AckSend(id)
    \/ \E p \in 1..Len(pubs) : FanoutSnapshot(p)
    \/ \E p \in 1..Len(pubs), id \in Ids : FanoutSend(p, id)
    \/ \E p \in 1..Len(pubs) : FanoutResume(p)
    \/ \E p \in 1..Len(pubs) : RemoveSubscriptionTopic(p)
    \/ \E p \in 1..Len(pubs) : RemoveSubscriptionRemoveTopic(p)
    \/ \E p \in 1..Len(pubs) : RemoveSubscriptionSubs(p)

(* ======================================================================= *)
(*     the fan-out under load: subscribers and Publish calls only          *)
(*     (src/service/topic.rs, publish)                                     *)
(* ======================================================================= *)
\* number of Publish calls of the workload without Unsubscribe
MaxPubs == 2

\* Publish::execute in that workload: publish (line 98) spawns the fan-out
\* task and returns at once
PublishLoad(name) ==
    /\ Len(pubs) < MaxPubs
    /\ Free
    /\ pubs' = Append(pubs,
          [name |-> name, pc |-> "spawned", todo |-> {}, hold |-> 0,
           ids |-> <<>>, rpc |-> "topic", res |-> <<CommandResponseOk>>,
           okBefore |-> UnsubOk,
           active |-> ReturnedOn(name) \ UnsubNamed,
           gone |-> {}])
    /\ UNCHANGED <<NEXT_ID, topics, subscriptions, subs, unsubs, idTask,
                   ackTask, chan, rx, received>>
    /\ UNCHANGED outsideTopic

NextFanout ==
    \/ \E name \in Topics : SubscribeTopic(name)
    \/ \E k \in 1..Len(subs) : SubscribeInsert(k)
    \/ \E id \in Ids : IdSend(id)
    \/ \E name \in Topics : PublishLoad(name)
    \/ \E p \in 1..Len(pubs) : FanoutSnapshot(p)
    \/ \E p \in 1..Len(pubs), id \in Ids : FanoutSend(p, id)
    \/ \E p \in 1..Len(pubs) : FanoutResume(p)
    \/ \E p \in 1..Len(pubs) : RemoveSubscriptionTopic(p)
    \/ \E p \in 1..Len(pubs) : RemoveSubscriptionRemoveTopic(p)
    \/ \E p \in 1..Len(pubs) : RemoveSubscriptionSubs(p)
    \/ \E id \in Ids : Recv(id)
    \/ \E id \in Ids : DropRx(id)

(* ======================================================================= *)
(*     the id generator over the whole range of its counter                *)
(*     (src/service/topic.rs, get_next_subscription_id)                    *)
(* ======================================================================= *)
IdsInit == issued = <<>>

\* subscribe as far as the id goes: lines 50-55, the id from
\* get_next_subscription_id goes into the set of the topic, and line 66,
\* subscriptions.insert(id, tx)
SubscribeId(name) ==
    /\ Len(issued) <= IdSpace
    /\ issued' = Append(issued, [id |-> NEXT_ID,
                                 inUse |-> NEXT_ID \in subscriptions])
    /\ NEXT_ID' = FetchAdd(NEXT_ID)
    /\ topics' = TopicsInsert(topics, name, NEXT_ID)
    /\ subscriptions' = subscriptions \cup {NEXT_ID}
    /\ UNCHANGED <<subs, unsubs, pubs, idTask, ackTask, chan, rx, received>>
    /\ UNCHANGED outsideIds

\* unsubscribe of a subscription there is, lines 71-82: the id leaves the
\* set of the topic, the topic goes with its last id, and
\* subscriptions.remove(&id)
UnsubscribeId(name, id) ==
    /\ id \in subscriptions
    /\ name \in DOMAIN topics
    /\ id \in topics[name]
    /\ topics' = IF TopicStepEmptied(topics, name, id)
                 THEN TopicsRemove(TopicStepMap(topics, name, id), name)
                 ELSE TopicStepMap(topics, name, id)
    /\ subscriptions' = subscriptions \ {id}
    /\ UNCHANGED <<NEXT_ID, subs, unsubs, pubs, idTask, ackTask, chan, rx,
                   received>>
    /\ UNCHANGED idVars
    /\ UNCHANGED outsideIds

NextIds ==
    \/ \E name \in Topics : SubscribeId(name)
    \/ \E name \in Topics, id \in 0..(IdSpace - 1) : UnsubscribeId(name, id)

(* ----------------------------- specifications ---------------------------- *)
StoreInit ==
    /\ store = <<>>
    /\ last = <<>>
    /\ prev = <<>>

Init ==
    /\ TopicInit /\ CodecInit /\ StoreInit /\ ServiceInit /\ StreamInit
    /\ MuxInit /\ ServerInit /\ IdsInit

\* the broadcaster
Spec == Init /\ [][Next]_vars

\* the frame codec
SpecCodec == Init /\ [][NextCodec]_vars

\* the one-shot commands
SpecStore == Init /\ [][NextStore]_vars

\* the dispatcher
SpecService == Init /\ [][NextService]_vars

\* the client's StreamResult
SpecStream == Init /\ [][NextStream]_vars

\* the yamux client
SpecMux == Init /\ [][NextMux]_vars

\* the logical streams of one connection on the server
SpecServer == Init /\ [][NextServer]_vars

\* the fan-out under load
SpecFanout == Init /\ [][NextFanout]_vars

\* the id generator
SpecIds == Init /\ [][NextIds]_vars

(* ======================================================================= *)
(*                               the claims                                *)
(* ======================================================================= *)
\* how often message m occurs in sequence s
Count(m, s) == Cardinality({i \in 1..Len(s) : s[i] = m})

\* the Publish call a message stems from, 0 for the id packet and the ack
PubOf(m) ==
    IF m.status = 200 /\ Len(m.values) = 1 /\ m.values[1][1] = "String"
    THEN m.values[1][2] ELSE 0

\* the ids that are members of some topic's set
TopicMembers == UNION {topics[n] : n \in DOMAIN topics}

\* ids named by a call of Unsubscribe that began before the cleanup of the id
NamedBeforeCleanup == {unsubs[u].id : u \in {v \in 1..Len(unsubs) : ~unsubs[v].cleaned}}

\* C1: when the fan-out of a Publish is done, every subscription of the topic
\* whose Subscribe had returned before the Publish was invoked, that no
\* Unsubscribe has named and whose receiver is alive, has got the message
\* exactly once in its mailbox.
C1_ExactlyOnce ==
    \A p \in 1..Len(pubs) :
        pubs[p].pc = "done" =>
            \A id \in pubs[p].active \ UnsubNamed :
                rx[id] = "alive" => Count(PubMsg(p), Delivered(id)) = 1

\* C2: once Unsubscribe has returned Ok for id, no Publish invoked afterwards
\* puts its message into id's mailbox, and whatever the mailbox receives from
\* then on is the status-0 sentinel.
C2_OnlySentinelAfterUnsubscribe ==
    \A u \in 1..Len(unsubs) :
        (unsubs[u].pc = "ok" /\ rx[unsubs[u].id] = "alive") =>
            /\ \A p \in 1..Len(pubs) :
                   unsubs[u].id \in pubs[p].okBefore =>
                       Count(PubMsg(p), Delivered(unsubs[u].id)) = 0
            /\ \A i \in (unsubs[u].sentBefore + 1)..Len(Delivered(unsubs[u].id)) :
                   Delivered(unsubs[u].id)[i] = UnsubscribeAck

\* the first half of C2 alone: no Publish invoked after Unsubscribe returned
\* Ok delivers to the unsubscribed id
C2_NoPublishAfterUnsubscribe ==
    \A u \in 1..Len(unsubs), p \in 1..Len(pubs) :
        (unsubs[u].pc = "ok" /\ rx[unsubs[u].id] = "alive"
           /\ unsubs[u].id \in pubs[p].okBefore) =>
            Count(PubMsg(p), Delivered(unsubs[u].id)) = 0

\* C3: a mailbox gets at most one sentinel, the sentinel is the last message
\* its receiver obtains, and a receiver that saw the end of the stream after
\* an Unsubscribe has obtained the sentinel.
C3_SentinelIsLast ==
    \A id \in Ids :
        /\ Count(UnsubscribeAck, Delivered(id)) <= 1
        /\ \A i \in 1..Len(received[id]) :
               received[id][i] = UnsubscribeAck => i = Len(received[id])
        /\ (rx[id] = "eos" /\ id \in UnsubOk) =>
               /\ received[id] # <<>>
               /\ received[id][Len(received[id])] = UnsubscribeAck

\* C4: the first message a receiver obtains is the id packet of its
\* subscription.
C4_IdPacketFirst ==
    \A id \in Ids : received[id] # <<>> => received[id][1] = IdPacket(id)

\* C5: with a single subscriber, the messages of two Publish calls reach the
\* receiver in the order in which the calls were made.
C5_PublishOrder ==
    Len(subs) = 1 =>
        \A id \in Ids : \A i, j \in 1..Len(received[id]) :
            (i < j /\ PubOf(received[id][i]) > 0 /\ PubOf(received[id][j]) > 0)
                => PubOf(received[id][i]) < PubOf(received[id][j])

\* C6: the ids handed out are pairwise distinct, the first one is 1, a
\* Subscribe that starts after another has returned gets a larger id, and
\* the counter stays above every id handed out, whatever was unsubscribed.
C6_IdsDistinctIncreasing ==
    /\ \A j, k \in 1..Len(subs) : j # k => subs[j].id # subs[k].id
    /\ Len(subs) >= 1 => subs[1].id = 1
    /\ \A k \in 1..Len(subs) : \A j \in subs[k].after : subs[j].id < subs[k].id
    /\ \A k \in 1..Len(subs) : subs[k].id < NEXT_ID

\* C6's case: two subscriptions, the second begun after the first returned,
\* and the first one unsubscribed
C6_Witness ==
    /\ Len(subs) = 2
    /\ subs[2].after = {1}
    /\ \E u \in 1..Len(unsubs) : unsubs[u].pc = "ok" /\ unsubs[u].id = subs[1].id

\* C7: in a quiescent state the keys of subscriptions are exactly the ids
\* that are members of some topic's set.
C7_MapsConsistent == Quiescent => subscriptions = TopicMembers

\* C8: once the fan-out of a Publish is done, a subscription of its topic
\* whose receiver was dropped before the fan-out began, and that no
\* Unsubscribe had named, is in neither map and got no sentinel task; an
\* Unsubscribe for it that begins afterwards returns NotFound.
C8_DroppedIsCleanedUp ==
    \A p \in 1..Len(pubs) :
        pubs[p].pc = "done" =>
            \A id \in pubs[p].gone \ NamedBeforeCleanup :
                /\ id \notin subscriptions
                /\ id \notin TopicMembers
                /\ ackTask[id] = "none"
                /\ \A u \in 1..Len(unsubs) :
                       (unsubs[u].id = id /\ unsubs[u].pc \in {"ok", "notfound"})
                           => unsubs[u].pc = "notfound"

\* C9: an Unsubscribe that answers NotFound has changed nothing; stated for
\* the calls that began in a quiescent state, where no concurrent call can be
\* held responsible.
C9_NotFoundChangesNothing ==
    \A u \in 1..Len(unsubs) :
        (unsubs[u].pc = "notfound" /\ unsubs[u].quiet) => ~unsubs[u].changed

\* C10: in a quiescent state no topic of the map has an empty set of ids.
C10_NoEmptyTopic == Quiescent => \A n \in DOMAIN topics : topics[n] # {}

\* C10's case: the last id of one topic was removed by Unsubscribe and the
\* last id of a topic by the cleanup after a failed send
C10_Witness ==
    /\ Quiescent
    /\ DOMAIN topics = {}
    /\ \E u \in 1..Len(unsubs) : unsubs[u].pc = "ok"
    /\ \E p \in 1..Len(pubs) : pubs[p].pc = "done" /\ pubs[p].gone # {}

\* C11: every Publish call has returned its single 200 OK acknowledgment as
\* soon as it is made, whatever its fan-out does afterwards, and a Publish
\* call can be made and returns whenever a worker thread runs it: also for a
\* topic nobody subscribed to and while a mailbox of the topic is full
C11_PublishAckWithoutFanout ==
    /\ \A p \in 1..Len(pubs) :
           /\ Len(pubs[p].res) = 1
           /\ pubs[p].res[1].status = 200
           /\ pubs[p].res[1].values = <<>>
    /\ \A name \in Topics :
           (Room(Len(subs), Len(unsubs), Len(pubs) + 1) /\ Free)
               => ENABLED Publish(name)

\* a Publish call returned its acknowledgment and its fan-out is suspended on
\* the full mailbox of a subscriber that has drained nothing
C11_Witness ==
    \E p \in 1..Len(pubs) :
        /\ pubs[p].hold # 0
        /\ Full(pubs[p].hold)
        /\ received[pubs[p].hold] = <<>>
        /\ rx[pubs[p].hold] = "alive"
        /\ pubs[p].res = <<CommandResponseOk>>


(* ------------------------- claims on the codec -------------------------- *)
\* the calls of encode that returned Ok
Encoded == {k \in 1..Len(items) : items[k].res = "Ok"}

\* the header the k-th encode wrote: line 45 appends it to the buffer, line
\* 61 writes it to the buffer it has cleared
HeaderOf(k) ==
    LET at == IF EncodedLen(items[k].item) > COMPRESSION_LIMIT
              THEN 0 ELSE Len(items[k].before)
    IN GetU32(SubSeq(items[k].after, at + 1, at + LENGTH))

\* the number of bytes that follow the header the k-th encode wrote
PayloadOf(k) ==
    LET at == IF EncodedLen(items[k].item) > COMPRESSION_LIMIT
              THEN 0 ELSE Len(items[k].before)
    IN Len(items[k].after) - at - LENGTH

HighBit(header) == (header \div COMPRESSION_BIT) % 2 = 1

\* C12: a message whose encoded size fits in a frame (at most 2^31 - 1, here
\* MAX_FRAME - 1), encoded into an empty buffer, is what decoding the bytes
\* produced returns
C12_RoundTrip ==
    \A k \in 1..Len(items) :
        (items[k].before = <<>> /\ EncodedLen(items[k].item) <= MAX_FRAME - 1)
            => /\ items[k].res = "Ok"
               /\ DecodeFrom(items[k].after).res = "Some"
               /\ DecodeFrom(items[k].after).msg = items[k].item

\* C13: the header encode writes has its high bit set exactly when the
\* encoded size of the message is over COMPRESSION_LIMIT; for a size of at
\* most the limit the low bits are the number of payload bytes that follow
C13_HighBitIffOverLimit ==
    \A k \in Encoded :
        /\ HighBit(HeaderOf(k)) <=> EncodedLen(items[k].item) > COMPRESSION_LIMIT
        /\ EncodedLen(items[k].item) <= COMPRESSION_LIMIT
               => /\ HeaderOf(k) % COMPRESSION_BIT = PayloadOf(k)
                  /\ PayloadOf(k) = EncodedLen(items[k].item)

\* messages on both sides of the limit were encoded, one of exactly the limit
C13_Witness ==
    /\ \E k \in Encoded : EncodedLen(items[k].item) = COMPRESSION_LIMIT
    /\ \E k \in Encoded : EncodedLen(items[k].item) = COMPRESSION_LIMIT + 1
                              /\ HighBit(HeaderOf(k))

\* C14: encode fails with a FrameError and writes nothing for an encoded
\* size of 2^31 (here MAX_FRAME) or more, accepts a size of 2^31 - 1, and every
\* length it accepts fits in the length field of the header (encoding into
\* an empty buffer)
C14_FrameLimit ==
    \A k \in {j \in 1..Len(items) : items[j].before = <<>>} :
        /\ EncodedLen(items[k].item) >= MAX_FRAME
               => (items[k].res = "FrameError" /\ items[k].after = items[k].before)
        /\ EncodedLen(items[k].item) = MAX_FRAME - 1 => items[k].res = "Ok"
        /\ items[k].res = "Ok" => EncodedLen(items[k].item) < COMPRESSION_BIT

\* C14, the part that holds: a size of 2^31 - 1 is accepted and a size over
\* 2^31 is refused with nothing written
C14_AcceptsBelowRefusesAbove ==
    \A k \in 1..Len(items) :
        /\ EncodedLen(items[k].item) > MAX_FRAME
               => (items[k].res = "FrameError" /\ items[k].after = items[k].before)
        /\ EncodedLen(items[k].item) < MAX_FRAME => items[k].res = "Ok"

\* C15: decode on a buffer with a whole header and fewer payload bytes than
\* the header's length reports no frame yet and consumes nothing
C15_TruncatedSuspends ==
    \A d \in 1..Len(out) :
        (/\ Len(out[d].before) >= LENGTH
         /\ GetU32(SubSeq(out[d].before, 1, LENGTH)) % COMPRESSION_BIT
                > Len(out[d].before) - LENGTH)
            => (out[d].res = "None" /\ out[d].after = out[d].before)

\* C15, the case that holds: fewer than LENGTH bytes give no frame yet and
\* consume nothing
C15_ShortHeaderSuspends ==
    \A d \in 1..Len(out) :
        Len(out[d].before) < LENGTH
            => (out[d].res = "None" /\ out[d].after = out[d].before)

(* --------------------- claims on the one-shot commands ------------------ *)
\* the command executed last is op on table t and key k and the storage
\* port did not fail
LastIs(op, t, k) ==
    /\ last # <<>>
    /\ last[1].fails = {}
    /\ last[1].req.op = op
    /\ last[1].req.table = t
    /\ IF op = "Hset" THEN last[1].req.pair # <<>> /\ last[1].req.pair[1].key = k
       ELSE last[1].req.key = k

\* the command executed before it is op on table t and key k
PrevIs(op, t, k) ==
    /\ prev # <<>>
    /\ prev[1].req.op = op
    /\ prev[1].req.table = t
    /\ IF op = "Hset" THEN prev[1].req.pair[1].key = k ELSE prev[1].req.key = k

\* the response is 200 with the one value v
Answers(resp, v) == resp.status = 200 /\ resp.values = <<v>>

\* C16: Hset(t,k,v) where k is absent responds 200 with values=[null]; an
\* Hget(t,k) that follows an Hset(t,k,v) responds 200 with values=[v]; an
\* Hset(t,k,v2) that follows it responds 200 with values=[v] and leaves v2
\* stored
C16_HsetThenHget ==
    \A t \in Tables, k \in Keys :
        /\ (LastIs("Hset", t, k) /\ Get(last[1].before, t, k) = <<>>)
               => Answers(last[1].resp, Null)
        /\ (PrevIs("Hset", t, k) /\ LastIs("Hget", t, k))
               => Answers(last[1].resp, prev[1].req.pair[1].value)
        /\ (PrevIs("Hset", t, k) /\ LastIs("Hset", t, k))
               => /\ Answers(last[1].resp, prev[1].req.pair[1].value)
                  /\ Get(store, t, k) = <<last[1].req.pair[1].value>>

\* an Hset of "v1" on an absent key answered null and the Hset of another
\* value that followed it answered "v1"
C16_Witness ==
    \E t \in Tables, k \in Keys :
        /\ PrevIs("Hset", t, k) /\ LastIs("Hset", t, k)
        /\ prev[1].req.pair[1].value = "v1"
        /\ prev[1].resp.values = <<Null>>
        /\ last[1].req.pair[1].value # "v1"
        /\ last[1].resp.values = <<"v1">>

\* C17: Hget(t,k) for a key absent from table t responds 404 with the
\* message of NotFound(t, k), which holds "table: t, key: k", with no values
\* and no pairs, and leaves the store as it was
C17_HgetAbsentIs404 ==
    \A t \in Tables, k \in Keys :
        (LastIs("Hget", t, k) /\ Get(last[1].before, t, k) = <<>>)
            => /\ last[1].resp.status = 404
               /\ last[1].resp.message = <<"Not found for table: ", t, ", key: ", k>>
               /\ last[1].resp.values = <<>>
               /\ last[1].resp.pairs = {}
               /\ store = last[1].before

\* an Hget of an absent key on a store that holds another key
C17_Witness ==
    \E t \in Tables, k \in Keys :
        /\ LastIs("Hget", t, k)
        /\ Get(last[1].before, t, k) = <<>>
        /\ DOMAIN store # {}
        /\ last[1].resp.status = 404

\* C18: Hdel(t,k) on a present key responds with the stored value and makes
\* k absent; after an Hdel(t,k), Hget(t,k) gives 404, Hexist(t,k) gives false
\* and another Hdel(t,k) responds 200 with values=[null] and leaves the store
\* unchanged
C18_HdelIdempotent ==
    \A t \in Tables, k \in Keys :
        /\ (LastIs("Hdel", t, k) /\ Get(last[1].before, t, k) # <<>>)
               => /\ Answers(last[1].resp, Get(last[1].before, t, k)[1])
                  /\ Get(store, t, k) = <<>>
        /\ (PrevIs("Hdel", t, k) /\ LastIs("Hget", t, k))
               => last[1].resp.status = 404
        /\ (PrevIs("Hdel", t, k) /\ LastIs("Hexist", t, k))
               => Answers(last[1].resp, "false")
        /\ (PrevIs("Hdel", t, k) /\ LastIs("Hdel", t, k))
               => /\ Answers(last[1].resp, Null)
                  /\ store = last[1].before

\* an Hdel that removed "v1" was repeated, with another key still stored
C18_Witness ==
    \E t \in Tables, k \in Keys :
        /\ PrevIs("Hdel", t, k) /\ LastIs("Hdel", t, k)
        /\ prev[1].resp.values = <<"v1">>
        /\ last[1].resp.values = <<Null>>
        /\ DOMAIN store # {}

\* what the matching single-key command answers for one key or pair on the
\* store st, and the store it leaves: the value of Hget or null if the key
\* is missing, the previous value of Hdel or of Hset or null, the bool of
\* Hexist
SingleKey(op, st, t, x) ==
    LET r == CASE op = "Hmget" -> HgetExecute(st, t, x, FALSE)
               [] op = "Hmdel" -> HdelExecute(st, t, x, FALSE)
               [] op = "Hmexist" -> HexistExecute(st, t, x, FALSE)
               [] op = "Hmset" -> HsetExecute(st, t, <<x>>, FALSE)
    IN [value |-> IF r.resp.status = 200 THEN r.resp.values[1] ELSE Null,
        store |-> r.store]

\* the single-key commands applied one at a time, from the i-th item on
RECURSIVE OneAtATime(_, _, _, _, _)
OneAtATime(op, st, t, list, i) ==
    IF i > Len(list) THEN [values |-> <<>>, store |-> st]
    ELSE LET one == SingleKey(op, st, t, list[i])
             more == OneAtATime(op, one.store, t, list, i + 1)
         IN [values |-> <<one.value>> \o more.values, store |-> more.store]

MultiOps == {"Hmget", "Hmdel", "Hmexist", "Hmset"}

\* the keys or pairs of a multi-key request
ItemsOf(req) == IF req.op = "Hmset" THEN req.pairs ELSE req.keys

\* C19: the response of Hmget, Hmdel, Hmexist and Hmset is 200 with one
\* value for each key or pair, in input order, values[i] being what the
\* matching single-key command answers when the items are applied one at a
\* time in input order (the storage port not failing)
C19_MultiKeyInOrder ==
    (last # <<>> /\ last[1].req.op \in MultiOps /\ last[1].fails = {})
        => LET req == last[1].req
               ref == OneAtATime(req.op, last[1].before, req.table, ItemsOf(req), 1)
           IN /\ last[1].resp.status = 200
              /\ Len(last[1].resp.values) = Len(ItemsOf(req))
              /\ last[1].resp.values = ref.values
              /\ store = ref.store

\* an Hmset that names one key twice answered null and then the value of
\* its first pair
C19_Witness ==
    /\ last # <<>>
    /\ last[1].req.op = "Hmset"
    /\ last[1].fails = {}
    /\ Len(last[1].req.pairs) = 2
    /\ last[1].req.pairs[1].key = last[1].req.pairs[2].key
    /\ last[1].resp.values = <<Null, "v1">>

\* C20: when the storage port returns an error while a one-shot command is
\* executed, the response has status 500 and the display text of the error
\* as message
C20_StorageErrorIs500 ==
    (last # <<>> /\ last[1].fails # {})
        => /\ last[1].resp.status = 500
           /\ last[1].resp.message # <<>>
           /\ last[1].resp.message[1] = "Cannot process command "

\* C20 for the single-key commands, where it holds
C20_SingleKeyErrorIs500 ==
    (last # <<>> /\ last[1].fails # {} /\ last[1].req.op \notin MultiOps)
        => /\ last[1].resp.status = 500
           /\ last[1].resp.message # <<>>
           /\ last[1].resp.message[1] = "Cannot process command "

(* ----------------------- claims on the dispatcher ----------------------- *)
\* the events of one kind among what a call of execute did, in order
Events(e, kind) == SelectSeq(e.trace, LAMBDA ev : ev.kind = kind)

\* the text is part of the message
Mentions(message, text) == \E i \in 1..Len(message) : message[i] = text

\* the request of the call is of a streaming variant
StreamingCall(e) ==
    e.cmd # NoData /\ e.cmd[1].op \in {"Subscribe", "Unsubscribe", "Publish"}

\* the request of the call is of one of the nine one-shot variants
OneShotCall(e) == e.cmd # NoData /\ ~StreamingCall(e)

\* C21: executing a request with no variant gives a stream of exactly one
\* element, of status 400 and with a message containing "Request has no
\* data", and changes neither the store nor the broadcaster
C21_NoDataIs400 ==
    (exec # <<>> /\ exec[1].cmd = NoData) =>
        /\ exec[1].res.kind = "once"
        /\ Len(exec[1].res.items) = 1
        /\ exec[1].res.items[1].status = 400
        /\ Mentions(exec[1].res.items[1].message, "Request has no data")
        /\ store = exec[1].store
        /\ topicVars = exec[1].broadcaster

\* C21, the part that holds: one element that carries the message, and
\* neither the store nor the broadcaster changed; status 400 when no
\* before_send hook is registered
C21_NoDataChangesNothing ==
    (exec # <<>> /\ exec[1].cmd = NoData) =>
        /\ exec[1].res.kind = "once"
        /\ Len(exec[1].res.items) = 1
        /\ mut_callbacks = <<>> => exec[1].res.items[1].status = 400
        /\ Mentions(exec[1].res.items[1].message, "Request has no data")
        /\ store = exec[1].store
        /\ topicVars = exec[1].broadcaster

\* C22: a Subscribe, Unsubscribe or Publish is dispatched once, to the
\* broadcaster, acts on it and leaves the store as it was; a request of one
\* of the nine H* variants is dispatched once, to storage, which executes
\* it, leaves the broadcaster as it was and returns a stream of exactly one
\* element
C22_Partition ==
    exec # <<>> =>
        LET e == exec[1] IN
        /\ StreamingCall(e) =>
              /\ Events(e, "dispatch") = <<Dispatched("broadcaster")>>
              /\ store = e.store
              /\ topicVars # e.broadcaster
              /\ e.cmd[1].op = "Subscribe" =>
                     (e.res.kind = "receiver" /\ e.res.id \in subscriptions)
              /\ e.cmd[1].op = "Publish" => Len(pubs) = Len(e.broadcaster[6]) + 1
              /\ e.cmd[1].op = "Unsubscribe" => e.cmd[1].id \notin subscriptions
        /\ OneShotCall(e) =>
              /\ Events(e, "dispatch") = <<Dispatched("storage")>>
              /\ topicVars = e.broadcaster
              /\ e.res.kind = "once"
              /\ Len(e.res.items) = 1
              /\ store = RequestDataExecute(e.cmd[1], e.store, {}).store
              /\ mut_callbacks = <<>> =>
                     e.res.items[1] = RequestDataExecute(e.cmd[1], e.store, {}).resp

\* a Publish was executed on a service with a key stored and a subscription
\* registered
C22_Witness ==
    /\ exec # <<>>
    /\ exec[1].cmd # NoData
    /\ exec[1].cmd[1].op = "Publish"
    /\ store # <<>>
    /\ subscriptions # {}

\* what the hooks from the i-th on make of a response, each applied once
RECURSIVE Hooked(_, _, _)
Hooked(mcbs, res, i) ==
    IF i > Len(mcbs) THEN res
    ELSE Hooked(mcbs,
                IF mcbs[i] = "created" THEN [res EXCEPT !.status = 201]
                ELSE [res EXCEPT !.message = Append(@, "seen " \o ToString(res.status))],
                i + 1)

\* C23: for a one-shot command every before_send hook is called exactly
\* once, in registration order, after the dispatch, and the response emitted
\* is what the hooks made of the response of the command; for Subscribe,
\* Publish and Unsubscribe no before_send hook is called and the response
\* returned is untouched
C23_BeforeSendHooks ==
    exec # <<>> =>
        LET e == exec[1] IN
        /\ OneShotCall(e) =>
              /\ Events(e, "before_send") = Called("before_send", mut_callbacks)
              /\ SubSeq(e.trace, Len(e.trace) - Len(mut_callbacks) + 1, Len(e.trace))
                     = Called("before_send", mut_callbacks)
              /\ e.res.items
                     = <<Hooked(mut_callbacks,
                                RequestDataExecute(e.cmd[1], e.store, {}).resp, 1)>>
        /\ StreamingCall(e) =>
              /\ Events(e, "before_send") = <<>>
              /\ e.res.kind = "once" =>
                     /\ e.res.items[1].status \in {200, 404}
                     /\ e.res.items[1].status = 200 => e.res.items[1].message = <<>>
                     /\ \A i \in 1..Len(e.res.items[1].message) :
                            e.res.items[1].message[i] \notin {"seen 200", "seen 404"}

\* an Hget of a missing key was executed with the hooks "seen" and "created"
\* registered in this order: the response has status 201 and the note of 404
C23_Witness ==
    /\ exec # <<>>
    /\ OneShotCall(exec[1])
    /\ mut_callbacks = <<"seen", "created">>
    /\ exec[1].res.items[1].status = 201
    /\ Mentions(exec[1].res.items[1].message, "seen 404")

\* C24: every call of execute calls every on_received hook exactly once, in
\* registration order, and only then dispatches, whatever the request
C24_OnReceivedFirst ==
    exec # <<>> =>
        LET e == exec[1] IN
        /\ Events(e, "on_received") = Called("on_received", callbacks)
        /\ Len(e.trace) > Len(callbacks)
        /\ SubSeq(e.trace, 1, Len(callbacks)) = Called("on_received", callbacks)
        /\ e.trace[Len(callbacks) + 1].kind = "dispatch"

\* a streaming request was executed with two on_received hooks registered
C24_Witness ==
    /\ exec # <<>>
    /\ StreamingCall(exec[1])
    /\ callbacks = <<"r2", "r1">>
    /\ topicVars # exec[1].broadcaster

(* ---------------------- claims on the StreamResult ---------------------- *)
\* the first item makes a valid stream: Ok with status 200 and values that
\* begin with an integer
ValidFirst(first) ==
    /\ first # <<>>
    /\ first[1].ok
    /\ first[1].resp.status = 200
    /\ first[1].resp.values # <<>>
    /\ first[1].resp.values[1][1] = "Integer"

\* what StreamResult::new found first: <<>> at the end of the stream
FirstTaken == IF taken = <<>> THEN <<>> ELSE <<taken[1]>>

\* C25: StreamResult::new succeeds exactly for a first item that is Ok with
\* status 200 and values whose first element is an integer, and then its id
\* is that integer; for every other first item (the end of the stream, an
\* error, another status, no values, a first value that is no integer) it
\* returns Internal("Invalid stream")
C25_NewChecksFirst ==
    result # <<>> =>
        IF ValidFirst(FirstTaken)
        THEN /\ result[1].res = "Ok"
             /\ result[1].id = FirstTaken[1].resp.values[1][2]
        ELSE /\ result[1].res = "Err"
             /\ result[1].err = <<Internal("Invalid stream")>>

\* C25, the part that holds: the same for every first item but a response
\* of status 200 whose first value is no integer
C25_NewChecksFirstButType ==
    (/\ result # <<>>
     /\ \/ ValidFirst(FirstTaken)
        \/ FirstTaken = <<>>
        \/ ~FirstTaken[1].ok
        \/ FirstTaken[1].resp.status # 200
        \/ FirstTaken[1].resp.values = <<>>) =>
        IF ValidFirst(FirstTaken)
        THEN /\ result[1].res = "Ok"
             /\ result[1].id = FirstTaken[1].resp.values[1][2]
        ELSE /\ result[1].res = "Err"
             /\ result[1].err = <<Internal("Invalid stream")>>

\* what the caller is to get for the items that arrived after the first one,
\* one entry for each: <<>> (None) for a response of status 0, the item for
\* a response of another status
RECURSIVE Expected(_)
Expected(s) ==
    IF s = <<>> THEN <<>>
    ELSE <<IF s[1].ok /\ s[1].resp.status = 0 THEN <<>> ELSE <<s[1]>> >>
             \o Expected(Tail(s))

\* C26: polling a StreamResult yields, for the items that arrived after
\* its creation and in their order, the response unchanged when its status
\* is not 0 and None when it is 0; no item yielded is a response of status 0
C26_ForwardOrEnd ==
    (result # <<>> /\ result[1].res = "Ok") =>
        /\ \A i \in 1..(Len(taken) - 1) :
               i <= Len(yielded) /\ yielded[i] = Expected(Tail(taken))[i]
        /\ \A i \in 1..Len(yielded) :
               yielded[i] # <<>> =>
                   ~(yielded[i][1].ok /\ yielded[i][1].resp.status = 0)

\* a response of status 200 was yielded and then None for the sentinel
C26_Witness ==
    /\ Len(yielded) >= 2
    /\ yielded[1] # <<>>
    /\ yielded[1][1].ok
    /\ yielded[1][1].resp.status = 200
    /\ yielded[2] = <<>>
    /\ Len(taken) = 3
    /\ taken[3].ok
    /\ taken[3].resp.status = 0

(* ---------------------- claims on the yamux client ---------------------- *)
\* the calls of open_stream whose future was dropped after their request
\* was submitted and before the reply was received
DroppedCalls == {k \in 1..Len(opens) : opens[k].pc = "dropped"}

\* C27: after a pending open_stream future was dropped with its request
\* submitted, the driver task keeps running, no call of open_stream begun
\* afterwards fails, and the stream opened for the dropped call is closed
C27_DropLeavesMuxUsable ==
    DroppedCalls # {} =>
        /\ ~DriverGone
        /\ \A j \in 1..Len(opens) :
               opens[j].after # {} => opens[j].pc # "panicked"
        /\ \A i \in 1..Len(outbound) :
               outbound[i].for \in DroppedCalls => outbound[i].state = "closed"

\* C27, the part that holds: no stream opened for a dropped call stays
\* open, and the driver ends only over a call dropped after its submission
C27_NoStreamLeaked ==
    /\ \A i \in 1..Len(outbound) :
           outbound[i].for \in DroppedCalls => outbound[i].state = "closed"
    /\ DriverGone => driver.req \in DroppedCalls

(* ------------------- claims on the server's streams --------------------- *)
\* the statuses of the responses made from a KvError
ErrorStatuses == {400, 404, 500}

\* the i-th request decoded on stream s is answered: the stream execute gave
\* for it is exhausted
Answered(s, i) == i < Len(HandledOn(s)) \/ task[s] # "res"

\* the responses written to stream s for the i-th request decoded on it
AnswersTo(s, i) ==
    SubSeq(sent[s], HandledOn(s)[i].at + 1,
           IF i < Len(HandledOn(s)) THEN HandledOn(s)[i + 1].at ELSE Len(sent[s]))

\* the response the dispatch of a one-shot request gives on the store found
Due(h) == Dispatch(h.cmd, h.before, h.fails).resp

\* the request goes to the storage: it has no data, or a one-shot variant
OneShot(cmd) == cmd = NoData \/ ~IsStreaming(cmd[1])
ToStorage(h) == OneShot(h.cmd)

\* C28: on a stream the client keeps open, a one-shot request whose response
\* is an error (404, 400, 500) is answered with exactly that response on the
\* same stream once its execution is over, the loop of the stream has
\* neither returned nor failed, and every request decoded after it on the
\* stream is answered with the response due to it
C28_ErrorKeepsStream ==
    \A s \in Streams :
        (/\ client[s].state = "open"
         /\ \E i \in 1..Len(HandledOn(s)) :
                /\ ToStorage(HandledOn(s)[i])
                /\ Due(HandledOn(s)[i]).status \in ErrorStatuses) =>
            /\ task[s] \in {"next", "res"}
            /\ \A j \in 1..Len(HandledOn(s)) :
                   (ToStorage(HandledOn(s)[j]) /\ Answered(s, j)) =>
                       AnswersTo(s, j) = <<Due(HandledOn(s)[j])>>

\* two requests with errors of two kinds were answered on a stream and the
\* request after them was answered with status 200
C28_Witness ==
    \E s \in Streams :
        /\ client[s].state = "open"
        /\ task[s] = "next"
        /\ Len(HandledOn(s)) = 3
        /\ Len(sent[s]) = 3
        /\ sent[s][1].status \in ErrorStatuses
        /\ sent[s][2].status \in ErrorStatuses
        /\ sent[s][1].status # sent[s][2].status
        /\ sent[s][3].status = 200

\* stream s has a one-shot request to read while another stream of the
\* connection waits for published messages on its subscription
OneShotBesideSubscription(s) ==
    /\ task[s] = "next"
    /\ inbox[s] # <<>>
    /\ OneShot(Head(inbox[s]))
    /\ \E o \in Streams \ {s} : Receiving(o) /\ ~ResReady(o)

\* C29: while the task of a stream waits for published messages on its
\* subscription, a one-shot request that has arrived on another stream of
\* the connection can be executed at once, it is answered with the response
\* due on the store as the request before it left it, whatever stream that
\* one came on, and the store it leaves is the one the next request finds
C29_StreamsIndependent ==
    /\ \A s \in Streams :
           OneShotBesideSubscription(s) => ENABLED ServerNext(s, {})
    /\ \A i \in 1..Len(handled) :
           /\ handled[i].before = IF i = 1 THEN <<>> ELSE handled[i - 1].after
           /\ handled[i].after = IF i = Len(handled) THEN store
                                 ELSE handled[i + 1].before
    /\ \A s \in Streams : \A j \in 1..Len(HandledOn(s)) :
           (/\ client[s].state = "open"
            /\ ToStorage(HandledOn(s)[j])
            /\ HandledOn(s)[j].waiting # {}
            /\ Answered(s, j)) =>
               AnswersTo(s, j) = <<Due(HandledOn(s)[j])>>

\* beta waits on its subscription; on alpha an Hset was executed and
\* answered meanwhile, and the Hget after it was answered with the value
C29_Witness ==
    /\ Receiving("beta")
    /\ ~ResReady("beta")
    /\ Len(HandledOn("alpha")) = 2
    /\ \A j \in 1..2 : HandledOn("alpha")[j].waiting = {"beta"}
    /\ \A j \in 1..2 : HandledOn("alpha")[j].cmd # NoData
    /\ HandledOn("alpha")[1].cmd[1].op = "Hset"
    /\ HandledOn("alpha")[2].cmd[1].op = "Hget"
    /\ task["alpha"] = "next"
    /\ Len(sent["alpha"]) = 2
    /\ sent["alpha"][1].status = 200
    /\ sent["alpha"][2].status = 200
    /\ sent["alpha"][2].values = <<"v1">>

\* the requests decoded that are a Publish whose fan-out task is done, with
\* every failed id cleaned up
PublishesDone ==
    {i \in 1..Len(handled) :
        handled[i].pub # 0 /\ pubs[handled[i].pub].pc = "done"}

\* id is neither in the id set of a topic nor in the id -> sender map
Removed(id) ==
    /\ id \notin subscriptions
    /\ \A n \in DOMAIN topics : id \notin topics[n]

\* C30: once the client has dropped the stream that carries an active
\* subscription, the next Publish to the topic, when its fan-out is over,
\* has removed the id from the topic's id set and from the id -> sender map
C30_NextPublishPrunes ==
    \A i \in PublishesDone : \A id \in handled[i].orphans : Removed(id)

\* C30, the part that holds: the same for a subscription whose receiver the
\* server has dropped by the time of the Publish
C30_PublishPrunesClosed ==
    \A i \in PublishesDone : \A id \in handled[i].closed : Removed(id)

\* a Publish found the receiver of a dropped stream closed and removed it
C30_ClosedPruned ==
    \E i \in PublishesDone : \E id \in handled[i].closed : Removed(id)

(* ------------------- further claims on the broadcaster ------------------ *)
\* the subscriptions whose Subscribe call has returned and that were neither
\* named by a call of Unsubscribe nor left by their receiver, which is what
\* makes a fan-out clean them up
Standing ==
    {k \in Returned : subs[k].id \notin UnsubNamed /\ rx[subs[k].id] # "dropped"}

\* C31: a subscription whose Subscribe call has returned is a member of the
\* id set of its topic as long as it was neither unsubscribed nor cleaned
\* up, whatever Unsubscribe or cleanup ran beside its Subscribe
C31_MemberUntilRemoved ==
    \A k \in Standing :
        /\ subs[k].name \in DOMAIN topics
        /\ subs[k].id \in topics[subs[k].name]

\* C31, the part that holds: such a subscription keeps its sender in the
\* id -> sender map
C31_SenderUntilRemoved ==
    \A k \in Standing : subs[k].id \in subscriptions

\* the u-th call of Unsubscribe is at subscriptions.remove(&id), line 82,
\* and waits for the lock that a fan-out task holds while it is suspended
\* in send().await on the full mailbox of a live receiver
WaitsBehindFullMailbox(u) ==
    /\ u \in 1..Len(unsubs)
    /\ unsubs[u].pc = "subs"
    /\ Held(unsubs[u].id)
    /\ Full(unsubs[u].id)
    /\ rx[unsubs[u].id] = "alive"

\* C32: no call of Unsubscribe comes to wait for a lock of the
\* subscriptions map held by a fan-out task that is suspended on a full
\* mailbox, a wait that does not end while the mailbox is not drained
C32_NoWaitBehindFullMailbox ==
    \A u \in 1..Len(unsubs) : ~WaitsBehindFullMailbox(u)

\* C32, why the wait does not end by itself: a call that waits so still
\* waits after every step that leaves the mailbox and the receiver as they
\* are
C32_WaitEndsByReceiverOnly ==
    [][\A u \in 1..MaxCalls :
          (WaitsBehindFullMailbox(u) /\ chan' = chan /\ rx' = rx)
              => (unsubs'[u].pc = "subs" /\ Held(unsubs[u].id)')]_vars

(* ------------------- claims on the fan-out under load ------------------- *)
\* the subscribers that wait for the message of the p-th Publish behind a
\* full mailbox: the fan-out task is suspended in send().await on the full
\* mailbox of a live receiver, and they, alive and with room in their
\* mailbox, are still to come in its loop
Behind(p) ==
    IF /\ pubs[p].pc = "fanout"
       /\ pubs[p].hold # 0
       /\ Full(pubs[p].hold)
       /\ rx[pubs[p].hold] = "alive"
    THEN {b \in pubs[p].todo \ {pubs[p].hold} :
             /\ b \in subscriptions
             /\ rx[b] = "alive"
             /\ ~Full(b)
             /\ Count(PubMsg(p), Delivered(b)) = 0}
    ELSE {}

\* C33: no subscriber waits for a published message behind the full mailbox
\* of another subscriber of the topic, a wait that does not end while that
\* mailbox is not drained
C33_NoDeliveryBehindFullMailbox ==
    \A p \in 1..Len(pubs) : Behind(p) = {}

\* C33, why the wait does not end by itself: whoever waits so has not got
\* the message after any step that leaves the full mailbox and its receiver
\* as they are
C33_WaitEndsByOtherReceiverOnly ==
    [][\A p \in 1..MaxPubs : \A b \in Ids :
          (/\ p <= Len(pubs)
           /\ b \in Behind(p)
           /\ chan'[pubs[p].hold] = chan[pubs[p].hold]
           /\ rx'[pubs[p].hold] = rx[pubs[p].hold])
              => Count(PubMsg(p), Delivered(b)') = 0]_vars

\* the topic the subscription id was made for, "" when there is none
TopicOf(id) ==
    IF \E k \in 1..Len(subs) : subs[k].id = id
    THEN subs[CHOOSE k \in 1..Len(subs) : subs[k].id = id].name
    ELSE ""

\* the step is one of the fan-out task of the p-th Publish
StepOf(p) == p <= Len(pubs) /\ pubs'[p] # pubs[p]

\* C35: a step of the fan-out task of a Publish to topic T puts a message
\* in the mailbox of subscriptions made for T only, leaves the id set of
\* every other topic as it is and removes the sender of no subscription
\* made for another topic
C35_OnlyItsTopic ==
    [][\A p \in 1..MaxPubs :
          StepOf(p) =>
              /\ \A id \in Ids :
                     chan'[id] # chan[id] => TopicOf(id) = pubs[p].name
              /\ \A n \in DOMAIN topics \ {pubs[p].name} :
                     n \in DOMAIN topics' /\ topics'[n] = topics[n]
              /\ \A id \in subscriptions \ subscriptions' :
                     TopicOf(id) = pubs[p].name]_vars

\* a Publish to "a" has reached the subscriber of "a" and a later one has
\* cleaned it up after its receiver was dropped, the topic with it, while
\* the subscriber of "b" is in place and has got its id only
C35_Witness ==
    /\ Len(subs) = 2
    /\ Len(pubs) = 2
    /\ \A p \in 1..2 : pubs[p].name = "a" /\ pubs[p].pc = "done"
    /\ \E k, j \in 1..2 :
           /\ subs[k].name = "a"
           /\ subs[j].name = "b"
           /\ received[subs[k].id] = <<IdPacket(subs[k].id), PubMsg(1)>>
           /\ subs[k].id \notin subscriptions
           /\ "a" \notin DOMAIN topics
           /\ "b" \in DOMAIN topics
           /\ topics["b"] = {subs[j].id}
           /\ subs[j].id \in subscriptions
           /\ received[subs[j].id] = <<IdPacket(subs[j].id)>>
           /\ chan[subs[j].id] = <<>>

\* the stream res of the request handled last on stream s has ended: its
\* items were all taken and res.next() has yielded None
ResOver(s) ==
    IF resStream[s].kind = "once"
    THEN resStream[s].items = <<>>
    ELSE rx[resStream[s].id] = "eos" /\ chan[resStream[s].id] = <<>>

\* C34: on one logical stream the requests are handled one at a time in the
\* order of arrival: a step that decodes a request on stream s takes the
\* oldest request waiting on s, and it is taken only when the stream res of
\* the request before it has ended, after every response of it was sent; so
\* while the receiver of a Subscribe is open no later request of that stream
\* is handled
C34_OneAtATime ==
    [][\A s \in Streams :
          (Len(handled') = Len(handled) + 1 /\ handled'[Len(handled')].stream = s)
          => /\ inbox[s] # <<>>
             /\ handled'[Len(handled')].cmd = Head(inbox[s])
             /\ inbox'[s] = Tail(inbox[s])
             /\ ResOver(s)
             /\ \A o \in Streams \ {s} : inbox'[o] = inbox[o]]_vars

\* stream alpha has sent the id of its subscription and a message published
\* on stream beta, its receiver is still open, and the Unsubscribe for that
\* subscription that arrived after the Subscribe waits undecoded
C34_Witness ==
    /\ task["alpha"] = "res"
    /\ resStream["alpha"].kind = "receiver"
    /\ resStream["alpha"].id \in subscriptions
    /\ Len(HandledOn("alpha")) = 1
    /\ Len(sent["alpha"]) = 2
    /\ inbox["alpha"] = <<<<[op |-> "Unsubscribe", topic |-> "a",
                             id |-> resStream["alpha"].id]>>>>
    /\ \E p \in 1..Len(pubs) : pubs[p].pc = "done"

\* the Unsubscribe calls made after the receiver of the subscription was
\* dropped that found the subscription and returned Ok
OkOnClosed == {u \in 1..Len(unsubs) : unsubs[u].pc = "ok" /\ unsubs[u].closed}

\* C36: after an Unsubscribe for a subscription whose receiver was dropped
\* and that no publish had cleaned up, the task that sends the sentinel to
\* the closed mailbox has not panicked
C36_ClosedMailboxNoPanic ==
    \A u \in OkOnClosed : ackTask[unsubs[u].id] # "panicked"

\* the rest of C36 as the code has it: such an Unsubscribe has removed the
\* sender and the id from its topic
C36_ClosedMailboxRemoved ==
    \A u \in OkOnClosed :
        /\ unsubs[u].id \notin subscriptions
        /\ unsubs[u].name \in DOMAIN topics => unsubs[u].id \notin topics[unsubs[u].name]

\* the sentinel task of such an Unsubscribe ends in a panic and in no other way
C36_ClosedMailboxAlwaysPanics ==
    \A u \in OkOnClosed : ackTask[unsubs[u].id] \in {"pending", "panicked"}

\* the sequence p is the front of the sequence b
StartsWith(b, p) == Len(p) <= Len(b) /\ SubSeq(b, 1, Len(p)) = p

\* what the i-th encode call has put behind the bytes the buffer held
Appended(i) ==
    SubSeq(items[i].after, Len(items[i].before) + 1, Len(items[i].after))

\* C37: an encode that returns Ok leaves the bytes the write buffer held
\* where they were, in front of what it writes
C37_EncodeKeepsBuffer ==
    \A i \in 1..Len(items) :
        items[i].res = "Ok" => StartsWith(items[i].after, items[i].before)

\* what the code keeps of C37: on the uncompressed path, and on the
\* compressed path into an empty buffer, the bytes of the buffer stay and
\* what is appended begins with a header of LENGTH bytes
C37_EncodeKeepsBufferUncompressed ==
    \A i \in 1..Len(items) :
        (/\ items[i].res = "Ok"
         /\ \/ ~OverLimit(EncodedLen(items[i].item))
            \/ items[i].before = <<>>)
        => /\ StartsWith(items[i].after, items[i].before)
           /\ Len(Appended(i)) >= LENGTH

\* the compressed path into a buffer that holds a frame: the new header
\* takes the place of the first LENGTH bytes of the buffer
C37_CompressedOverwritesFront ==
    \A i \in 1..Len(items) :
        (/\ items[i].res = "Ok"
         /\ OverLimit(EncodedLen(items[i].item))
         /\ Len(items[i].before) >= LENGTH)
        => /\ Len(items[i].after) > Len(items[i].before)
           /\ SubSeq(items[i].after, LENGTH + 1, Len(items[i].before)) =
                  SubSeq(items[i].before, LENGTH + 1, Len(items[i].before))
           /\ GetU32(SubSeq(items[i].after, 1, LENGTH)) % COMPRESSION_BIT =
                  (Len(items[i].after) - LENGTH) % COMPRESSION_BIT

\* the length field of the header at the front of the bytes b
LengthField(b) == GetU32(SubSeq(b, 1, LENGTH)) % COMPRESSION_BIT

\* C38: a decode that yields a message has taken from the front of the read
\* buffer the LENGTH bytes of the header and as many bytes as the length
\* field of the header says, and has left every byte behind them as it was
C38_DecodeConsumesOneFrame ==
    \A d \in 1..Len(out) :
        out[d].res = "Some" =>
            /\ Len(out[d].before) >= LENGTH + LengthField(out[d].before)
            /\ Len(out[d].after) =
                   Len(out[d].before) - LENGTH - LengthField(out[d].before)
            /\ out[d].after =
                   SubSeq(out[d].before,
                          LENGTH + LengthField(out[d].before) + 1,
                          Len(out[d].before))

\* two frames with a payload were encoded and have arrived; the first
\* decode has left the bytes of the second frame, the second one an empty
\* buffer, and the two messages came out in order
C38_Witness ==
    /\ Len(items) = 2
    /\ Len(out) = 2
    /\ \A i \in 1..2 : items[i].item # DefaultMessage
    /\ \A d \in 1..2 : out[d].res = "Some" /\ out[d].msg = items[d].item
    /\ out[1].before = items[2].after
    /\ out[1].after = out[2].before
    /\ out[1].after # <<>>
    /\ out[2].after = <<>>

\* C39: no id is handed out twice, as far as the counter is taken
C39_NeverReissued ==
    \A i, j \in 1..Len(issued) : i # j => issued[i].id # issued[j].id

\* what the code keeps of C39: the ids are distinct as long as the counter
\* has not gone through its range, the i-th of them being i
C39_DistinctBeforeWrap ==
    \A i \in 1..Len(issued) : i < IdSpace => issued[i].id = i

\* where the code leaves C39: the call that finds the counter at its end gets
\* 0, the calls after it the ids from 1 again, be they still in use or not
C39_WrapsToZero ==
    \A i \in 1..Len(issued) : i >= IdSpace => issued[i].id = i - IdSpace

\* no id is handed out while a subscription with that id is in place
C39_NeverReissuedInUse ==
    \A i \in 1..Len(issued) : ~issued[i].inUse

====
